---- MODULE Spec2Model ----
(***************************************************************************)
(* Distributed contrastive-loss engine of open_clip:                       *)
(*   - the ring neighbour exchange and the sigmoid loss that drives it     *)
(*     (open_clip/loss.py, training/loss/siglip.py),                       *)
(*   - the all-gather feature gatherer and the softmax loss labels,        *)
(*   - the ground-truth label cache,                                       *)
(*   - the nested-dimension (matryoshka) wrapper of the sigmoid loss,      *)
(*   - the gradient-accumulation loop of training/train.py,                *)
(*   - the three-tower softmax loss, the loss factory of                   *)
(*     training/factory.py and the gather of unevenly sized batches,       *)
(*   - the row layout of the features over an accumulation window and the  *)
(*     ring with one worker whose rounds differ from its peers'.           *)
(* Ranks are 0-based as in the source; sequences are 1-based.              *)
(***************************************************************************)
EXTENDS Integers, Sequences, FiniteSets, TLC

\* Largest world size explored.
MaxW == 5

Ranks == 0 .. (MaxW - 1)

VARIABLES
    world_size,   \* self.world_size, the same on every worker
    bidir,        \* self.bidir / self._bidirectional
    entry,        \* what every worker calls: "forward" or "exchange_bidir"
    eager,        \* transport: TRUE = a send completes on its own (buffered),
                  \*            FALSE = a send completes once its receive is posted
    wk,           \* per-rank local state of the call in progress
    chan,         \* chan[s][d]: every message s has sent to d, in order
    nposted,      \* nposted[d][s]: how many receives d has posted from s
    local_loss,        \* self.local_loss
    gather_with_grad,  \* self.gather_with_grad
    use_horovod,       \* self.use_horovod
    nrows,             \* N, the local batch size (the same on every worker)
    gw,                \* per-rank state of ClipLoss.forward
    coll,              \* coll[m][r]: what rank r handed to the all-gather of m
    inst,              \* one loss instance: its configuration and label cache
    call,              \* the last get_ground_truth call on inst and its result
    mloss,             \* one MatryoshkaSigLIPLoss instance
    mcall,             \* the forward call made on mloss and its result
    args,              \* args.accum_freq, args.mtl_loss_weight, what the run has
    accum,             \* the accum_* lists of train_one_epoch
    loop,              \* position and locals of the training loop
    trace,             \* calls issued since the current window began
    tcfg,              \* shape and content of the teacher features
    tw,                \* per-rank state of ThreeTowerLoss.forward
    tcoll,             \* tcoll[m][r]: what rank r handed to the all-gather of m
    fargs,             \* the args _create_contrastive_loss is called with
    built,             \* what _create_contrastive_loss returned or raised
    urows,             \* urows[r]: the local batch size of rank r
    ug,                \* per-rank state of a gather of unevenly sized batches
    lay,               \* one accumulation window: sub-batch sizes and row layouts
    odd                \* the worker whose exchange rounds differ from its peers'

ringVars == <<bidir, entry, eager, wk, chan, nposted>>
gatherVars == <<local_loss, gather_with_grad, use_horovod, nrows, gw, coll>>
labelVars == <<inst, call>>
matVars == <<mloss, mcall>>
accumVars == <<args, accum, loop, trace>>
towerVars == <<tcfg, tw, tcoll>>
factoryVars == <<fargs, built>>
unevenVars == <<urows, ug>>
layoutVars == <<lay>>
skewVars == <<odd>>
extVars == <<towerVars, factoryVars, unevenVars, layoutVars, skewVars>>

vars == <<world_size, ringVars, gatherVars, labelVars, matVars, accumVars, extVars>>

\* Largest world size of the all-gather runs, largest local batch, largest
\* logits width asked of the label cache.
MaxGatherW == 3
MaxBatch == 2
MaxLogits == 3

Devices == {"cpu", "cuda"}
Modalities == <<"image", "text">>

Workers == 0 .. (world_size - 1)

Min(a, b) == IF a < b THEN a ELSE b

(***************************************************************************)
(* Tensors.  A feature tensor is named by the worker that produced it and  *)
(* a tag; a gradient tensor is the set of its additive terms.              *)
(***************************************************************************)
Zero == [src |-> -1, tag |-> "Z", terms |-> {}]
Text(r) == [src |-> r, tag |-> "T", terms |-> {}]
Payload(r, side) == [src |-> r, tag |-> side, terms |-> {}]
Grad(S) == [src |-> -1, tag |-> "G", terms |-> S]
NoMsg == [val |-> Zero, from |-> -1, slot |-> "Z"]

\* d(loss of worker r)/d(t): the term worker r's own loss adds to t's gradient.
LocalTerm(r, t) == {[by |-> r, of |-> <<t.src, t.tag>>]}

(***************************************************************************)
(* Topology (SigLipLoss.forward).                                          *)
(***************************************************************************)
RightRank(r, ws) == (r + 1) % ws
LeftRank(r, ws) == (r - 1 + ws) % ws

\* num_bidir, remainder = divmod(self.world_size - 1, 2)
CeilBidir(ws) == ws \div 2
NumBidir(ws) == (ws - 1) \div 2
Remainder(ws) == (ws - 1) % 2

\* The exchanges one forward pass performs, in order.
RoundKinds(ws, bd, en) ==
    IF en = "exchange_bidir" THEN <<"bi">>
    ELSE IF bd
         THEN [i \in 1 .. (NumBidir(ws) + Remainder(ws)) |->
                  IF i <= NumBidir(ws) THEN "bi" ELSE "uni"]
         ELSE [i \in 1 .. (ws - 1) |-> "uni"]

NumRounds == Len(RoundKinds(world_size, bidir, entry))

(***************************************************************************)
(* The P2P operations of one exchange, in the order they are batched.      *)
(***************************************************************************)
SendOp(peer, tensor, slot) == [op |-> "send", peer |-> peer, val |-> tensor, slot |-> slot]
RecvOp(peer, slot) == [op |-> "recv", peer |-> peer, val |-> Zero, slot |-> slot]

\* A receive posted on the rank the tensor is sent to.
exchange_recv_from_target(from_rank, to_rank, tensor) ==
    << SendOp(to_rank, tensor, "T"), RecvOp(to_rank, "T") >>

neighbour_exchange(from_rank, to_rank, tensor) ==
    << SendOp(to_rank, tensor, "T"), RecvOp(from_rank, "T") >>

neighbour_exchange_bidir(left_rank, right_rank, tensor_to_left, tensor_to_right) ==
    << SendOp(right_rank, tensor_to_right, "R"),
       SendOp(left_rank, tensor_to_left, "L"),
       RecvOp(right_rank, "R"),
       RecvOp(left_rank, "L") >>

\* How many operations are issued before the first wait: all of them.
OneAtATime(ops) == 1
BatchSize(ops) == Len(ops)

\* The ranks the backward exchange is called with.
SameRanks(ctx) == ctx
BackwardRanks(ctx) == [left_rank |-> ctx.right_rank, right_rank |-> ctx.left_rank]

\* After a bidirectional round: (to_left, to_right) = (from_right, from_left);
\* after a unidirectional round: to_right = from_left.
KeepPayloads(kind, old, from_right, from_left) == old
NextPayloads(kind, old, from_right, from_left) ==
    IF kind = "bi"
    THEN [toL |-> from_right, toR |-> from_left]
    ELSE [toL |-> old.toL, toR |-> from_left]

(***************************************************************************)
(* The exchange a worker is in.                                            *)
(***************************************************************************)
\* self.bidir of worker r: the instances are built alike unless one
\* worker's setting is the other way round.
SameBidir(r) == bidir
BidirOf(r) == IF odd.how = "bidir" /\ odd.rank = r THEN ~bidir ELSE bidir

\* The number of exchanges of worker r's forward pass.
LastRound(r) == Len(RoundKinds(world_size, BidirOf(r), entry))

Kind(r) == RoundKinds(world_size, BidirOf(r), entry)[wk[r].rnd]

\* Gradients of the tensors received in the round being differentiated:
\* the worker's own loss term plus what came back from the later round.
GradOutR(r) ==
    LET h == wk[r].hist[wk[r].rnd]
    IN  Grad(LocalTerm(r, h.fromR.val) \cup wk[r].carryL.terms)

OwnTermOnly(r) ==
    LET h == wk[r].hist[wk[r].rnd]
    IN  Grad(LocalTerm(r, h.fromL.val))
GradOutL(r) ==
    LET h == wk[r].hist[wk[r].rnd]
    IN  Grad(LocalTerm(r, h.fromL.val) \cup wk[r].carryR.terms)

CurOps(r) ==
    LET me == wk[r]
        left_rank == LeftRank(r, world_size)
        right_rank == RightRank(r, world_size)
    IN  IF me.pc = "fwd"
        THEN IF Kind(r) = "bi"
             THEN neighbour_exchange_bidir(left_rank, right_rank, me.toL, me.toR)
             ELSE neighbour_exchange(left_rank, right_rank, me.toR)
        ELSE LET b == BackwardRanks(me.hist[me.rnd].ctx)
             IN  IF Kind(r) = "bi"
                 THEN neighbour_exchange_bidir(b.left_rank, b.right_rank,
                                               GradOutR(r), GradOutL(r))
                 ELSE \* ctx.from_rank = left, ctx.to_rank = right
                      neighbour_exchange(b.left_rank, b.right_rank, GradOutL(r))

\* batch_isend_irecv: post operations lo..hi of the list, in list order.
\* The k-th receive d posts from s pairs with the k-th send s posts to d.
SeqNo(r, ops, lo, k) ==
    LET same == {j \in lo .. k : ops[j].op = ops[k].op /\ ops[j].peer = ops[k].peer}
        base == IF ops[k].op = "send" THEN Len(chan[r][ops[k].peer])
                ELSE nposted[r][ops[k].peer]
    IN  base + Cardinality(same)

SendsTo(r, ops, lo, hi, d) ==
    LET sel == SelectSeq(SubSeq(ops, lo, hi),
                         LAMBDA o : o.op = "send" /\ o.peer = d)
    IN  [i \in 1 .. Len(sel) |-> [val |-> sel[i].val, from |-> r, slot |-> sel[i].slot]]

Post(r) ==
    LET me == wk[r]
        ops == CurOps(r)
        lo == me.nIss + 1
        hi == Min(Len(ops), me.nIss + BatchSize(ops))
        newseqs == [k \in 1 .. (hi - lo + 1) |-> SeqNo(r, ops, lo, lo + k - 1)]
        rec == [rnd |-> me.rnd,
                outR |-> IF Kind(r) = "bi" THEN GradOutR(r) ELSE Grad({}),
                outL |-> GradOutL(r),
                inL |-> Grad({}), inR |-> Grad({}), done |-> FALSE]
    IN  /\ r \in Workers
        /\ me.nWait = me.nIss
        /\ me.nIss < Len(ops)
        /\ chan' = [chan EXCEPT ![r] =
                       [d \in Ranks |-> chan[r][d] \o SendsTo(r, ops, lo, hi, d)]]
        /\ nposted' = [nposted EXCEPT ![r] =
                          [s \in Ranks |-> nposted[r][s] + Cardinality(
                              {j \in lo .. hi : ops[j].op = "recv" /\ ops[j].peer = s})]]
        /\ wk' = [wk EXCEPT ![r].nIss = hi,
                            ![r].seqs = @ \o newseqs,
                            ![r].bhist = IF me.pc = "bwd" /\ me.nIss = 0
                                         THEN Append(@, rec) ELSE @]
        /\ UNCHANGED <<world_size, bidir, entry, eager, gatherVars, labelVars, matVars, accumVars, extVars>>

\* The forward pass calls the exchange of its current round.
Issue(r) == wk[r].pc = "fwd" /\ Post(r)

\* loss.backward(): autograd calls the backward of the exchanges, last round
\* first; each calls the exchange again with the ranks swapped.
BackwardIssue(r) == wk[r].pc = "bwd" /\ Post(r)

\* req.wait() returns once the request is complete.
Complete(r, ops, k) ==
    IF ops[k].op = "send"
    THEN eager \/ nposted[ops[k].peer][r] >= wk[r].seqs[k]
    ELSE Len(chan[ops[k].peer][r]) >= wk[r].seqs[k]

Received(r, ops, k) == chan[ops[k].peer][r][wk[r].seqs[k]]

\* What the exchange returns: (tensor_from_right, tensor_from_left); the
\* unidirectional exchange returns its one received tensor as from_left.
Result(r, ops) ==
    IF Len(ops) = 4
    THEN [fromR |-> Received(r, ops, 3), fromL |-> Received(r, ops, 4)]
    ELSE [fromR |-> NoMsg, fromL |-> Received(r, ops, 2)]

\* Forward: the exchange returned; score the received blocks as
\* negative-only terms and set up the next round.
ForwardReturn(r, ops) ==
    LET me == wk[r]
        kind == Kind(r)
        res == Result(r, ops)
        nxt == NextPayloads(kind, [toL |-> me.toL, toR |-> me.toR],
                            res.fromR.val, res.fromL.val)
        h == [kind |-> kind, inL |-> me.toL, inR |-> me.toR,
              fromR |-> res.fromR, fromL |-> res.fromL,
              ctx |-> [left_rank |-> LeftRank(r, world_size),
                       right_rank |-> RightRank(r, world_size)]]
        got == IF kind = "bi" THEN <<res.fromR.val, res.fromL.val>>
               ELSE <<res.fromL.val>>
    IN  [me EXCEPT !.hist = Append(@, h),
                   !.scored = IF entry = "forward" THEN @ \o got ELSE @,
                   !.toL = nxt.toL,
                   !.toR = nxt.toR,
                   !.nIss = 0, !.nWait = 0, !.seqs = <<>>,
                   !.rnd = IF me.rnd = LastRound(r) THEN @ ELSE @ + 1,
                   !.pc = IF me.rnd = LastRound(r) THEN "bwd" ELSE "fwd"]

\* Backward: the mirrored exchange returned the gradients of the tensors
\* this worker sent in that round.
BackwardReturn(r, ops) ==
    LET me == wk[r]
        kind == Kind(r)
        res == Result(r, ops)
        \* bidir: (grad of tensor_to_left, grad of tensor_to_right) =
        \*        (tensor_from_right, tensor_from_left) of the mirrored call
        gL == IF kind = "bi" THEN res.fromR.val ELSE Grad({})
        gR == res.fromL.val
        n == Len(me.bhist)
        own == IF entry = "forward" THEN LocalTerm(r, Text(r)) ELSE {}
    IN  [me EXCEPT !.bhist[n] = [@ EXCEPT !.inL = gL, !.inR = gR, !.done = TRUE],
                   !.carryL = gL,
                   !.carryR = gR,
                   !.nIss = 0, !.nWait = 0, !.seqs = <<>>,
                   !.rnd = IF me.rnd = 1 THEN @ ELSE @ - 1,
                   !.pc = IF me.rnd = 1 THEN "done" ELSE "bwd",
                   !.grad = IF me.rnd = 1
                            THEN own \cup gL.terms \cup gR.terms ELSE @]

\* `for req in reqs: req.wait()`: the worker blocks on the requests it has
\* issued, in order, and goes on once all of them are complete.
Wait(r) ==
    LET me == wk[r]
        ops == CurOps(r)
    IN  /\ r \in Workers
        /\ me.pc \in {"fwd", "bwd"}
        /\ me.nWait < me.nIss
        /\ \A k \in (me.nWait + 1) .. me.nIss : Complete(r, ops, k)
        /\ wk' = [wk EXCEPT ![r] =
                     IF me.nIss < Len(ops) THEN [me EXCEPT !.nWait = me.nIss]
                     ELSE IF me.pc = "fwd" THEN ForwardReturn(r, ops)
                     ELSE BackwardReturn(r, ops)]
        /\ UNCHANGED <<world_size, bidir, entry, eager, chan, nposted, gatherVars, labelVars, matVars, accumVars, extVars>>

InitWorker(r, ws, en) ==
    [pc |-> IF r < ws THEN "fwd" ELSE "off",
     rnd |-> 1,
     toL |-> IF en = "forward" THEN Text(r) ELSE Payload(r, "L"),
     toR |-> IF en = "forward" THEN Text(r) ELSE Payload(r, "R"),
     nIss |-> 0, nWait |-> 0, seqs |-> <<>>,
     hist |-> <<>>, scored |-> <<>>,
     carryL |-> Grad({}), carryR |-> Grad({}),
     bhist |-> <<>>, grad |-> {}]

(***************************************************************************)
(* Values of the state a run does not use.                                 *)
(***************************************************************************)
GRanks == 0 .. (MaxGatherW - 1)

NoCache == [prev_num_logits |-> 0, keys |-> {}, labels |-> [d \in Devices |-> <<>>]]

IdleGatherWorker ==
    [pc |-> "off", m |-> 1,
     all_features |-> [image |-> <<>>, text |-> <<>>],
     logits_per_image |-> <<>>, logits_per_text |-> <<>>,
     labels |-> <<>>, cache |-> NoCache]

NoCall == [made |-> FALSE, device |-> "cpu", num_logits |-> 0, ret |-> <<>>]

RingIdle ==
    /\ bidir = FALSE /\ entry = "none" /\ eager = FALSE
    /\ wk = [r \in Ranks |-> InitWorker(r, 0, "none")]
    /\ chan = [s \in Ranks |-> [d \in Ranks |-> <<>>]]
    /\ nposted = [d \in Ranks |-> [s \in Ranks |-> 0]]

GatherIdle ==
    /\ local_loss = FALSE /\ gather_with_grad = FALSE /\ use_horovod = FALSE
    /\ nrows = 0
    /\ gw = [r \in GRanks |-> IdleGatherWorker]
    /\ coll = [m \in {"image", "text"} |-> [r \in GRanks |-> <<>>]]

LabelIdle ==
    /\ inst = [rank |-> 0, local_loss |-> FALSE, cache_labels |-> FALSE, cache |-> NoCache]
    /\ call = NoCall

\* An optional one-element tensor is <<v>>; Python's None is the empty tuple.
None == <<>>

NoMCall == [made |-> FALSE, left_features |-> <<>>, right_features |-> <<>>,
            logit_scale |-> None, logit_bias |-> None, ret |-> {}]

MatIdle ==
    /\ mloss = [dims |-> <<>>, weights |-> <<>>, logit_scale |-> None,
                logit_bias |-> None]
    /\ mcall = NoMCall

EmptyAccum ==
    [images |-> <<>>, texts |-> <<>>, features |-> <<>>,
     mtl_datasets |-> <<>>, mtl_batches |-> <<>>, mtl_labels |-> <<>>,
     mtl_features |-> <<>>]

AccumIdle ==
    /\ args = [accum_freq |-> 0]
    /\ accum = EmptyAccum
    /\ loop = [pc |-> "off"]
    /\ trace = <<>>

TowerIdle == tcfg = <<>> /\ tw = <<>> /\ tcoll = <<>>
NoLoss == [by |-> "none", class |-> "none", error |-> "none", use_horovod |-> FALSE]
FactoryIdle == fargs = <<>> /\ built = NoLoss
UnevenIdle == urows = <<>> /\ ug = <<>>
LayoutIdle == lay = <<>>
NoOdd == [rank |-> -1, how |-> "none"]
SkewIdle == odd = NoOdd
LaterIdle == LayoutIdle /\ SkewIdle
ExtIdle == TowerIdle /\ FactoryIdle /\ UnevenIdle /\ LaterIdle

RingInit ==
    /\ world_size \in 2 .. MaxW
    /\ entry \in {"forward", "exchange_bidir"}
    /\ bidir \in BOOLEAN
    /\ entry = "exchange_bidir" => bidir
    /\ eager \in BOOLEAN
    /\ wk = [r \in Ranks |-> InitWorker(r, world_size, entry)]
    /\ chan = [s \in Ranks |-> [d \in Ranks |-> <<>>]]
    /\ nposted = [d \in Ranks |-> [s \in Ranks |-> 0]]
    /\ GatherIdle
    /\ LabelIdle
    /\ MatIdle
    /\ AccumIdle
    /\ ExtIdle

RingNext == \E r \in Ranks : Issue(r) \/ Wait(r) \/ BackwardIssue(r)

SpecRing == RingInit /\ [][RingNext]_vars

\* The forward pass alone, with the worker processes kept running: a step
\* that stays possible is eventually taken.
ForwardNext == \E r \in Ranks : Issue(r) \/ Wait(r)

FairForward == RingInit /\ [][ForwardNext]_vars /\ WF_vars(ForwardNext)

(***************************************************************************)
(* Properties of the ring protocol.                                        *)
(***************************************************************************)
\* forward has returned its loss
Returned(r) == wk[r].pc \in {"bwd", "done"}

ScoredFrom(r) == {wk[r].scored[i].src : i \in 1 .. Len(wk[r].scored)}

\* C1: in the sigmoid-loss forward pass worker r scores as negative-only
\* terms the text blocks of exactly the other workers: never its own block,
\* no block twice, and once forward has returned every other worker's block.
RingNegativeCoverage ==
    entry = "forward" =>
        \A r \in Workers :
            LET s == wk[r].scored
            IN  /\ \A i \in 1 .. Len(s) : s[i].tag = "T" /\ s[i].src \in Workers \ {r}
                /\ \A i, j \in 1 .. Len(s) : i # j => s[i].src # s[j].src
                /\ Returned(r) => ScoredFrom(r) = Workers \ {r}

\* C1 witness: a worker of a five-ring has returned from a bidirectional
\* forward pass of two two-sided rounds.
RingCoverageReached ==
    /\ entry = "forward" /\ bidir /\ world_size = 5
    /\ \E r \in Workers : Returned(r) /\ Len(wk[r].scored) = 4

\* C2: every worker calls the bidirectional exchange with payloads tagged by
\* sender and side; worker r gets back as tensor_from_left the to_right
\* payload of r-1 and as tensor_from_right the to_left payload of r+1, for
\* every world size from 2 on.
BidirRoundTrip ==
    entry = "exchange_bidir" =>
        \A r \in Workers :
            Len(wk[r].hist) >= 1 =>
                /\ wk[r].hist[1].fromL.val = Payload(LeftRank(r, world_size), "R")
                /\ wk[r].hist[1].fromR.val = Payload(RightRank(r, world_size), "L")

\* The same round trip restricted to rings of three workers or more.
BidirRoundTripFrom3 == world_size >= 3 => BidirRoundTrip

\* C3: a worker that is waiting on a request of an exchange has issued
\* every send and every receive of that exchange.
IssueAllBeforeWait ==
    \A r \in Workers :
        (wk[r].pc \in {"fwd", "bwd"} /\ wk[r].nWait < wk[r].nIss)
            => wk[r].nIss = Len(CurOps(r))

Blocked(r) ==
    /\ wk[r].pc \in {"fwd", "bwd"}
    /\ wk[r].nWait < wk[r].nIss
    /\ \E k \in (wk[r].nWait + 1) .. wk[r].nIss : ~Complete(r, CurOps(r), k)

\* C3 witness: a worker is blocked on the requests of a bidirectional
\* exchange with all four operations posted.
BlockedAfterIssuingAll ==
    \E r \in Workers :
        /\ Blocked(r)
        /\ Len(CurOps(r)) = 4
        /\ wk[r].nIss = 4 /\ wk[r].nWait = 0

\* C4: the ring never has every worker blocked, and under fair scheduling
\* of the worker processes every worker returns from the forward pass.
RingDeadlockFree ==
    /\ [](\E r \in Workers : ~Blocked(r))
    /\ <>(\A r \in Workers : Returned(r))

\* C4 witness: all workers of a four-ring with a rendezvous transport have
\* returned a loss.
RingAllReturned ==
    /\ entry = "forward" /\ ~eager /\ world_size = 4
    /\ \A r \in Workers : Returned(r)

BackEntry(q, i) == wk[q].bhist[NumRounds - i + 1]
HasBackEntry(q, i) == Len(wk[q].bhist) >= NumRounds - i + 1

\* The gradient worker r obtained, in the backward of round i, for the
\* tensor it passed as argument `slot`, is the gradient the worker that
\* received that tensor fed into its own backward of round i.
MirrorMatches(r, i, slot, g) ==
    \E q \in Workers :
        /\ Len(wk[q].hist) >= i
        /\ HasBackEntry(q, i)
        /\ \/ /\ wk[q].hist[i].fromR.from = r
              /\ wk[q].hist[i].fromR.slot = slot
              /\ g = BackEntry(q, i).outR
           \/ /\ wk[q].hist[i].fromL.from = r
              /\ wk[q].hist[i].fromL.slot = slot
              /\ g = BackEntry(q, i).outL

\* C5: the backward exchange sends the gradient of the tensor received from
\* the right to the right neighbour and that of the tensor received from the
\* left to the left neighbour, and returns for each tensor the worker sent
\* the gradient computed by the peer that received it.
BackwardMirror ==
    \A r \in Workers :
        /\ wk[r].pc = "bwd" =>
              LET ops == CurOps(r)
              IN  \A k \in 1 .. Len(ops) :
                      ops[k].op = "send" =>
                          ops[k].peer = IF ops[k].val = GradOutL(r)
                                        THEN LeftRank(r, world_size)
                                        ELSE RightRank(r, world_size)
        /\ \A n \in 1 .. Len(wk[r].bhist) :
              LET b == wk[r].bhist[n]
                  kind == RoundKinds(world_size, bidir, entry)[b.rnd]
              IN  b.done =>
                      IF kind = "bi"
                      THEN /\ MirrorMatches(r, b.rnd, "L", b.inL)
                           /\ MirrorMatches(r, b.rnd, "R", b.inR)
                      ELSE MirrorMatches(r, b.rnd, "T", b.inR)

\* C5 witness: a worker has finished the backward pass of a bidirectional
\* forward pass on four workers (one two-sided and one single-sided round).
BackwardFinished ==
    /\ entry = "forward" /\ bidir /\ world_size = 4
    /\ \E r \in Workers : wk[r].pc = "done" /\ Len(wk[r].bhist) = 2

\* End to end: the gradient a worker ends up with for its own text block has
\* one term from every worker's loss.
GradientComplete ==
    \A r \in Workers :
        (entry = "forward" /\ wk[r].pc = "done")
            => wk[r].grad = {[by |-> q, of |-> <<r, "T">>] : q \in Workers}

(***************************************************************************)
(* Feature tensors of the softmax loss: a tensor is the sequence of its    *)
(* rows; a row records the modality, the worker that produced it, its      *)
(* index in that worker's batch and how gradient reaches it: "local" (it   *)
(* is the caller's own tensor), "gathered" (through the differentiable     *)
(* all-gather) or "none".                                                  *)
(***************************************************************************)
Features(m, r, n) ==
    [i \in 1 .. n |-> [mod |-> m, owner |-> r, idx |-> i - 1, grad |-> "local"]]

Detach(t) == [i \in 1 .. Len(t) |-> [t[i] EXCEPT !.grad = "none"]]
ThroughCollective(t) == [i \in 1 .. Len(t) |-> [t[i] EXCEPT !.grad = "gathered"]]

RECURSIVE Cat(_)
Cat(list) == IF list = <<>> THEN <<>> ELSE Head(list) \o Cat(Tail(list))

\* torch.chunk(chunks, dim=0): pieces of ceil(len / chunks) rows.
Chunk(t, chunks) ==
    LET size == (Len(t) + chunks - 1) \div chunks
        count == IF size = 0 THEN 0 ELSE (Len(t) + size - 1) \div size
    IN  [k \in 1 .. count |-> SubSeq(t, (k - 1) * size + 1, Min(k * size, Len(t)))]

\* The all-gather itself: one tensor per rank, in rank order.
AllGather(m) == [k \in 1 .. world_size |-> coll[m][k - 1]]

\* Which gather is used and whether the own block is patched back in.
WithGradOnLocalLoss(gwg, ll) == ll
WithGrad(gwg, ll) == gwg

AlwaysPatch(gwg, ll) == TRUE
ShouldPatch(gwg, ll) == ~ll

\* The list position the caller's own tensor is written to.
FirstIndex(rk) == 1
PatchIndex(rk) == rk + 1

\* GatherFeatures.__call__
GatherFeatures(features, rk, ws, gathered, hv, gwg, ll) ==
    IF hv
    THEN IF WithGrad(gwg, ll)
         THEN Cat([k \in 1 .. ws |-> ThroughCollective(gathered[k])])
         ELSE LET all == Cat([k \in 1 .. ws |-> Detach(gathered[k])])
                  chunks == Chunk(all, ws)
              IN  IF ShouldPatch(gwg, ll)
                  THEN Cat([chunks EXCEPT ![PatchIndex(rk)] = features])
                  ELSE all
    ELSE IF WithGrad(gwg, ll)
         THEN Cat([k \in 1 .. ws |-> ThroughCollective(gathered[k])])
         ELSE LET list == [k \in 1 .. ws |-> Detach(gathered[k])]
              IN  Cat(IF ShouldPatch(gwg, ll)
                      THEN [list EXCEPT ![PatchIndex(rk)] = features]
                      ELSE list)

\* a @ b.T: entry (i, j) is the similarity of row i of a with row j of b.
Sim(x, y) == {x, y}
MatMulT(a, b) == [i \in 1 .. Len(a) |-> [j \in 1 .. Len(b) |-> Sim(a[i], b[j])]]
Transpose(mat) ==
    IF mat = <<>> THEN <<>>
    ELSE [j \in 1 .. Len(mat[1]) |-> [i \in 1 .. Len(mat) |-> mat[i][j]]]

(***************************************************************************)
(* Ground-truth labels and their cache.                                    *)
(***************************************************************************)
NoOffset(num_logits, rk, ws, ll) == 0
LabelOffset(num_logits, rk, ws, ll) ==
    IF ws > 1 /\ ll THEN num_logits * rk ELSE 0

\* torch.arange(num_logits) (+ num_logits * rank)
ArangeFromOne(num_logits, rk, ws, ll) == [i \in 1 .. num_logits |-> i]
FreshLabels(num_logits, rk, ws, ll) ==
    [i \in 1 .. num_logits |-> (i - 1) + LabelOffset(num_logits, rk, ws, ll)]

\* ClipLoss.get_ground_truth: the labels returned and the cache afterwards.
CachingGroundTruth(c, device, num_logits, rk, ws, ll, cache_labels) ==
    IF c.prev_num_logits # num_logits \/ device \notin c.keys
    THEN LET labels == FreshLabels(num_logits, rk, ws, ll)
         IN  [labels |-> labels,
              cache |-> [prev_num_logits |-> num_logits,
                         keys |-> c.keys \cup {device},
                         labels |-> [c.labels EXCEPT ![device] = labels]]]
    ELSE [labels |-> c.labels[device], cache |-> c]
get_ground_truth(c, device, num_logits, rk, ws, ll, cache_labels) ==
    IF c.prev_num_logits # num_logits \/ device \notin c.keys
    THEN LET labels == FreshLabels(num_logits, rk, ws, ll)
         IN  [labels |-> labels,
              cache |-> IF cache_labels
                        THEN [prev_num_logits |-> num_logits,
                              keys |-> c.keys \cup {device},
                              labels |-> [c.labels EXCEPT ![device] = labels]]
                        ELSE c]
    ELSE [labels |-> c.labels[device], cache |-> c]

(***************************************************************************)
(* ClipLoss.forward on every worker.                                       *)
(***************************************************************************)
GWorkers == 0 .. (world_size - 1)

\* The loss factory always enables the label cache; a worker's tensors live
\* on its one device.
CacheLabels == TRUE
DeviceOf(r) == "cuda"

GatherEnter(r) ==
    LET me == gw[r]
        m == Modalities[me.m]
    IN  /\ r \in GWorkers
        /\ me.pc = "gather"
        /\ coll' = [coll EXCEPT ![m][r] = Features(m, r, nrows)]
        /\ gw' = [gw EXCEPT ![r].pc = "wait"]
        /\ UNCHANGED <<world_size, local_loss, gather_with_grad, use_horovod, nrows,
                       ringVars, labelVars, matVars, accumVars, extVars>>

GatherExit(r) ==
    LET me == gw[r]
        m == Modalities[me.m]
        all == GatherFeatures(Features(m, r, nrows), r, world_size, AllGather(m),
                              use_horovod, gather_with_grad, local_loss)
    IN  /\ r \in GWorkers
        /\ me.pc = "wait"
        /\ \A k \in GWorkers : coll[m][k] # <<>>
        /\ gw' = [gw EXCEPT ![r].all_features[m] = all,
                            ![r].m = IF me.m < Len(Modalities) THEN @ + 1 ELSE @,
                            ![r].pc = IF me.m < Len(Modalities) THEN "gather"
                                      ELSE "logits"]
        /\ UNCHANGED <<world_size, local_loss, gather_with_grad, use_horovod, nrows,
                       coll, ringVars, labelVars, matVars, accumVars, extVars>>

\* get_logits after the gathers, then the labels.
Logits(r) ==
    LET me == gw[r]
        image_features == Features("image", r, nrows)
        text_features == Features("text", r, nrows)
        lpi == IF world_size > 1
               THEN IF local_loss
                    THEN MatMulT(image_features, me.all_features.text)
                    ELSE MatMulT(me.all_features.image, me.all_features.text)
               ELSE MatMulT(image_features, text_features)
        lpt == IF world_size > 1
               THEN IF local_loss
                    THEN MatMulT(text_features, me.all_features.image)
                    ELSE Transpose(lpi)
               ELSE MatMulT(text_features, image_features)
        gt == get_ground_truth(me.cache, DeviceOf(r), Len(lpi), r, world_size,
                               local_loss, CacheLabels)
    IN  /\ r \in GWorkers
        /\ me.pc = "logits"
        /\ gw' = [gw EXCEPT ![r].logits_per_image = lpi,
                            ![r].logits_per_text = lpt,
                            ![r].labels = gt.labels,
                            ![r].cache = gt.cache,
                            ![r].pc = "done"]
        /\ UNCHANGED <<world_size, local_loss, gather_with_grad, use_horovod, nrows,
                       coll, ringVars, labelVars, matVars, accumVars, extVars>>

GatherInit ==
    /\ world_size \in 1 .. MaxGatherW
    /\ local_loss \in BOOLEAN
    /\ gather_with_grad \in BOOLEAN
    /\ use_horovod \in BOOLEAN
    /\ nrows \in 1 .. MaxBatch
    /\ gw = [r \in GRanks |->
                [IdleGatherWorker EXCEPT
                    !.pc = IF r >= world_size THEN "off"
                           ELSE IF world_size > 1 THEN "gather" ELSE "logits"]]
    /\ coll = [m \in {"image", "text"} |-> [r \in GRanks |-> <<>>]]
    /\ RingIdle
    /\ LabelIdle
    /\ MatIdle
    /\ AccumIdle
    /\ ExtIdle

GatherNext == \E r \in GRanks : GatherEnter(r) \/ GatherExit(r) \/ Logits(r)

SpecGather == GatherInit /\ [][GatherNext]_vars

(***************************************************************************)
(* get_ground_truth called on one loss instance with arbitrary arguments.  *)
(***************************************************************************)
GetGroundTruth(device, num_logits) ==
    LET gt == get_ground_truth(inst.cache, device, num_logits, inst.rank,
                               world_size, inst.local_loss, inst.cache_labels)
    IN  /\ inst' = [inst EXCEPT !.cache = gt.cache]
        /\ call' = [made |-> TRUE, device |-> device, num_logits |-> num_logits,
                    ret |-> gt.labels]
        /\ UNCHANGED <<world_size, ringVars, gatherVars, matVars, accumVars, extVars>>

LabelInit ==
    /\ world_size \in 1 .. MaxGatherW
    /\ inst \in [rank : GWorkers, local_loss : BOOLEAN, cache_labels : BOOLEAN,
                 cache : {NoCache}]
    /\ call = NoCall
    /\ RingIdle
    /\ GatherIdle
    /\ MatIdle
    /\ AccumIdle
    /\ ExtIdle

LabelNext == \E device \in Devices, num_logits \in 1 .. MaxLogits :
                 GetGroundTruth(device, num_logits)

SpecLabels == LabelInit /\ [][LabelNext]_vars

(***************************************************************************)
(* Properties of the gatherer and of the labels.                           *)
(***************************************************************************)
Strip(row) == [mod |-> row.mod, owner |-> row.owner, idx |-> row.idx]

Gathered(r, m) == gw[r].all_features[m] # <<>>

\* The ranks whose block of a gathered tensor carries gradient.
GradBlocks(t) ==
    {k \in GWorkers : \E i \in 1 .. nrows :
        k * nrows + i <= Len(t) /\ t[k * nrows + i].grad # "none"}

Block(t, k) == SubSeq(t, k * nrows + 1, (k + 1) * nrows)

\* C6: in every gather mode the global tensor a worker gets is W blocks in
\* ascending rank order, block k being worker k's local batch in its
\* original row order.
GatherOrdering ==
    \A r \in GWorkers : \A m \in {"image", "text"} :
        Gathered(r, m) =>
            LET t == gw[r].all_features[m]
            IN  /\ Len(t) = world_size * nrows
                /\ \A k \in GWorkers : \A i \in 0 .. (nrows - 1) :
                       Strip(t[k * nrows + i + 1]) = [mod |-> m, owner |-> k, idx |-> i]

\* C6 witness: a worker other than rank 0 of three has gathered through the
\* chunk-and-patch path with two rows per worker.
GatherPatchedReached ==
    /\ world_size = 3 /\ nrows = 2
    /\ use_horovod /\ ~gather_with_grad /\ ~local_loss
    /\ Gathered(2, "text")

\* C7, as claimed: whenever features are gathered without gradient tracking
\* exactly the block at the worker's own rank carries gradient, and it is
\* the caller's original tensor.
DetachedGatherPatchesOwnBlock ==
    \A r \in GWorkers : \A m \in {"image", "text"} :
        (Gathered(r, m) /\ ~gather_with_grad) =>
            LET t == gw[r].all_features[m]
            IN  /\ GradBlocks(t) = {r}
                /\ Block(t, r) = Features(m, r, nrows)

\* C7, amended: gathered without gradient tracking, the own block is the
\* caller's original tensor and the only one with gradient when local-loss
\* is off; when local-loss is on no block carries gradient.
DetachedGatherPatchesUnlessLocal ==
    \A r \in GWorkers : \A m \in {"image", "text"} :
        (Gathered(r, m) /\ ~gather_with_grad) =>
            LET t == gw[r].all_features[m]
            IN  IF local_loss
                THEN GradBlocks(t) = {}
                ELSE /\ GradBlocks(t) = {r}
                     /\ Block(t, r) = Features(m, r, nrows)

\* C7 witness: a detached gather with local-loss off has returned on a
\* middle rank.
DetachedPatchedReached ==
    /\ world_size = 3 /\ ~gather_with_grad /\ ~local_loss /\ ~use_horovod
    /\ Gathered(1, "image")

\* The gather variant a returned tensor shows.
Variant(t, r) ==
    IF \A i \in 1 .. Len(t) : t[i].grad = "gathered" THEN "preserve_gradient"
    ELSE IF \A i \in 1 .. Len(t) : t[i].grad = "none" THEN "detached"
    ELSE IF /\ GradBlocks(t) = {r}
            /\ \A i \in 1 .. Len(t) : t[i].grad \in {"none", "local"}
         THEN "detach_then_patch"
    ELSE "mixed"

\* C8, as claimed: get_logits gathers with the preserve-gradient variant
\* when local-loss is set and with detach-then-patch otherwise.
GatherModeByLocalLoss ==
    \A r \in GWorkers : \A m \in {"image", "text"} :
        Gathered(r, m) =>
            Variant(gw[r].all_features[m], r) =
                IF local_loss THEN "preserve_gradient" ELSE "detach_then_patch"

\* C8, amended: the preserve-gradient variant is used exactly when
\* gather_with_grad is set; otherwise the gather is detached and the own
\* block is patched back only when local-loss is not set.
GatherModeByFlags ==
    \A r \in GWorkers : \A m \in {"image", "text"} :
        Gathered(r, m) =>
            Variant(gw[r].all_features[m], r) =
                IF gather_with_grad THEN "preserve_gradient"
                ELSE IF local_loss THEN "detached"
                ELSE "detach_then_patch"

\* C8 witness: gather_with_grad without local-loss, both tensors gathered.
GradGatherWithoutLocalLoss ==
    /\ world_size >= 2 /\ gather_with_grad /\ ~local_loss
    /\ \E r \in GWorkers : Gathered(r, "image") /\ Gathered(r, "text")

PositivePair(entry_, r, i) ==
    {Strip(x) : x \in entry_} =
        {[mod |-> "image", owner |-> r, idx |-> i],
         [mod |-> "text", owner |-> r, idx |-> i]}

\* C9: with W > 1 and local-loss, worker r's label for local row i is
\* i + r*N and that column of its local-by-global logits holds the
\* similarity of row i with its own partner; without local-loss the label
\* of global row i is i.
SoftmaxLabels ==
    \A r \in GWorkers :
        gw[r].pc = "done" =>
            LET me == gw[r]
            IN  IF world_size > 1 /\ local_loss
                THEN /\ Len(me.labels) = nrows
                     /\ \A i \in 0 .. (nrows - 1) :
                            /\ me.labels[i + 1] = i + r * nrows
                            /\ PositivePair(
                                   me.logits_per_image[i + 1][me.labels[i + 1] + 1], r, i)
                            /\ PositivePair(
                                   me.logits_per_text[i + 1][me.labels[i + 1] + 1], r, i)
                ELSE /\ Len(me.labels) = world_size * nrows
                     /\ \A i \in 0 .. (world_size * nrows - 1) : me.labels[i + 1] = i

\* C9 witness: the last of three workers, two rows each, has its local-loss
\* labels.
LocalLossLabelsReached ==
    /\ world_size = 3 /\ nrows = 2 /\ local_loss
    /\ gw[2].pc = "done"

\* C10: with label caching on, every get_ground_truth call returns the
\* labels a fresh computation for its num_logits would return, whatever
\* calls came before.
LabelCacheTransparent ==
    (inst.cache_labels /\ call.made) =>
        call.ret = FreshLabels(call.num_logits, inst.rank, world_size, inst.local_loss)

(***************************************************************************)
(* MatryoshkaSigLIPLoss (training/loss/siglip.py) on a single worker.  A   *)
(* feature tensor is a sequence of rows, a row a sequence of integers.  A  *)
(* loss value is a linear combination of sigmoid-loss terms: the set of    *)
(* pairs <<term, coefficient>> with non-zero coefficient, so that 0.0 + x  *)
(* and x * 1 are x.  A term records the label and logit matrices the loss  *)
(* is computed from.                                                       *)
(***************************************************************************)
\* Embedding width and largest number of configured prefixes.
MaxDim == 2
MaxPrefixes == 2

\* self._logit_scale = exp(log(1 / temperature)) at the default temperature.
DefaultLogitScale == 20

\* tensor[..., :dim]
Prefix(tensor, dim) ==
    [i \in 1 .. Len(tensor) |-> SubSeq(tensor[i], 1, Min(dim, Len(tensor[i])))]

RECURSIVE DotUpTo(_, _, _)
DotUpTo(a, b, n) == IF n = 0 THEN 0 ELSE a[n] * b[n] + DotUpTo(a, b, n - 1)

\* One entry of left @ right.T
Dot(a, b) == DotUpTo(a, b, Len(a))

\* `x or y` on optional one-element tensors: None and the zero tensor are
\* falsy.
Or(x, y) == IF x = None \/ x = <<0>> THEN y ELSE x

sigmoid_loss(left_features, right_features, logit_scale, logit_bias, negative_only) ==
    LET batchsize == Len(left_features)
        logits == [i \in 1 .. batchsize |-> [j \in 1 .. Len(right_features) |->
                      logit_scale[1] * Dot(left_features[i], right_features[j])
                      + (IF logit_bias # None THEN logit_bias[1] ELSE 0)]]
        labels == [i \in 1 .. batchsize |-> [j \in 1 .. batchsize |->
                      IF i = j /\ ~negative_only THEN 1 ELSE -1]]
    IN  [labels |-> labels, logits |-> logits, denom |-> batchsize]

LinTerms(v) == {p[1] : p \in v}
LinCoef(v, t) == IF t \in LinTerms(v) THEN (CHOOSE p \in v : p[1] = t)[2] ELSE 0
LinOf(t) == {<<t, 1>>}
LinAdd(v, w) ==
    {<<t, LinCoef(v, t) + LinCoef(w, t)>> :
         t \in {u \in LinTerms(v) \cup LinTerms(w) : LinCoef(v, u) + LinCoef(w, u) # 0}}
LinScale(v, c) == {<<p[1], p[2] * c>> : p \in {q \in v : c # 0}}

\* SigLIPLoss.forward with world_size 1: the local term only.
SigLIPLossForward(self, left_features, right_features, logit_scale, logit_bias) ==
    LinOf(sigmoid_loss(left_features, right_features,
                       Or(logit_scale, self.logit_scale),
                       Or(logit_bias, self.logit_bias), FALSE))

\* The loop of MatryoshkaSigLIPLoss.forward over the first n pairs of
\* zip(self._dims, self._weights).  The truncated tensors are computed and
\* the inner loss is called on the tensors as passed, without logit_bias.
RECURSIVE MatryoshkaLoop(_, _, _, _, _)
MatryoshkaLoop(self, left_features, right_features, logit_scale, n) ==
    IF n = 0 THEN {}
    ELSE LET dim == self.dims[n]
             weight == self.weights[n]
             left_composites == Prefix(left_features, dim)
             right_composites == Prefix(right_features, dim)
             composite_loss == SigLIPLossForward(self, left_features, right_features,
                                                 logit_scale, None)
         IN  LinAdd(MatryoshkaLoop(self, left_features, right_features, logit_scale, n - 1),
                    LinScale(composite_loss, weight))

MatryoshkaSigLIPLossForward(self, left_features, right_features, logit_scale, logit_bias) ==
    MatryoshkaLoop(self, left_features, right_features, logit_scale,
                   Min(Len(self.dims), Len(self.weights)))

\* One-row feature tensors of the embedding width.
FeatureTensors == {<<row>> : row \in [1 .. MaxDim -> {0, 1}]}

MatryoshkaForward(left_features, right_features, logit_scale, logit_bias) ==
    /\ ~mcall.made
    /\ mcall' = [made |-> TRUE,
                 left_features |-> left_features, right_features |-> right_features,
                 logit_scale |-> logit_scale, logit_bias |-> logit_bias,
                 ret |-> MatryoshkaSigLIPLossForward(mloss, left_features, right_features,
                                                     logit_scale, logit_bias)]
    /\ UNCHANGED <<world_size, mloss, ringVars, gatherVars, labelVars, accumVars, extVars>>

MatInit ==
    /\ world_size = 1
    /\ \E n \in 1 .. MaxPrefixes :
           \E dims \in [1 .. n -> 1 .. (MaxDim + 1)], weights \in [1 .. n -> {1, 2}],
              logit_bias \in {None, <<-1>>} :
               mloss = [dims |-> dims, weights |-> weights,
                        logit_scale |-> <<DefaultLogitScale>>, logit_bias |-> logit_bias]
    /\ mcall = NoMCall
    /\ RingIdle
    /\ GatherIdle
    /\ LabelIdle
    /\ AccumIdle
    /\ ExtIdle

MatNext ==
    \E left_features \in FeatureTensors, right_features \in FeatureTensors,
       logit_scale \in {None, <<0>>, <<2>>}, logit_bias \in {None, <<0>>, <<1>>} :
        MatryoshkaForward(left_features, right_features, logit_scale, logit_bias)

SpecMatryoshka == MatInit /\ [][MatNext]_vars

\* The weighted sum the wrapper is to return: the inner loss on the first
\* dims[j] columns of both tensors, times weights[j], over the first n
\* prefixes.
RECURSIVE TruncatedSum(_, _, _, _, _, _)
TruncatedSum(self, left, right, logit_scale, logit_bias, n) ==
    IF n = 0 THEN {}
    ELSE LinAdd(TruncatedSum(self, left, right, logit_scale, logit_bias, n - 1),
                LinScale(SigLIPLossForward(self, Prefix(left, self.dims[n]),
                                           Prefix(right, self.dims[n]),
                                           logit_scale, logit_bias),
                         self.weights[n]))

\* C11: a call of the wrapper without an explicit logit_bias returns the sum,
\* over the configured prefixes d with weight w, of w times the inner loss of
\* the first d embedding dimensions of both feature tensors.
MatryoshkaTruncatedSum ==
    (mcall.made /\ mcall.logit_bias = None) =>
        mcall.ret = TruncatedSum(mloss, mcall.left_features, mcall.right_features,
                                 mcall.logit_scale, mcall.logit_bias, Len(mloss.dims))

\* C12: with the single prefix equal to the embedding width and weight 1 the
\* wrapper returns what the inner sigmoid loss returns for the same features,
\* logit_scale and logit_bias.
MatryoshkaIdentity ==
    (mcall.made /\ mloss.dims = <<MaxDim>> /\ mloss.weights = <<1>>) =>
        mcall.ret = SigLIPLossForward(mloss, mcall.left_features, mcall.right_features,
                                      mcall.logit_scale, mcall.logit_bias)

\* What the wrapper does return for a single full-width prefix of weight 1:
\* the inner loss of the same features and logit_scale with the instance's
\* own logit_bias.
MatryoshkaIdentityWithoutBias ==
    (mcall.made /\ mloss.dims = <<MaxDim>> /\ mloss.weights = <<1>>) =>
        mcall.ret = SigLIPLossForward(mloss, mcall.left_features, mcall.right_features,
                                      mcall.logit_scale, None)

(***************************************************************************)
(* The training loop of train_one_epoch (training/train.py) over one       *)
(* epoch.  Microbatch i of the data loader is named by its index; a        *)
(* tensor records the microbatch it was computed from and whether it       *)
(* carries gradient.  torch.cat of a list of blocks is the sequence of the *)
(* blocks.  A loss value is a sum of named terms and a divisor.  The       *)
(* trace holds the calls issued since the current window's first           *)
(* microbatch; steps and dropped count the optimizer steps taken and the   *)
(* windows dropped since the start of the epoch.                           *)
(***************************************************************************)
\* Largest accum_freq and the number of microbatches of the epoch.
MaxAccum == 3
MaxBatches == 6

FeatureKeys == {"left_features", "right_features"}
LossNames == {"contrastive_loss", "mtl_loss", "loss"}

Images(mb) == [kind |-> "images", mb |-> mb]
Texts(mb) == [kind |-> "texts", mb |-> mb]
MtlDataset(mb) == [kind |-> "mtldataset", mb |-> mb]
MtlBatch(mb) == [kind |-> "mtlbatch", mb |-> mb]
MtlLabels(mb) == [kind |-> "mtllabels", mb |-> mb]
Feature(key, mb, grad) == [key |-> key, mb |-> mb, requires_grad |-> grad]

\* model(allimages, alltexts) once image_features and text_features are
\* regrouped into left_features and right_features and the logit scale and
\* bias are taken out.
ModelOutOfFirst(mb, grad) == [key \in FeatureKeys |-> Feature(key, 0, grad)]
ModelOut(mb, grad) == [key \in FeatureKeys |-> Feature(key, mb, grad)]

\* Features of the auxiliary batch: the two halves of a pair batch
\* (no labels), or the whole batch of a triplet batch (labels).
MtlFeats(mb, grad, labelled) ==
    IF labelled THEN <<Feature("mtl_feats", mb, grad)>>
    ELSE <<Feature("mtl_first", mb, grad), Feature("mtl_second", mb, grad)>>

Event(op, mb) ==
    [op |-> op, mb |-> mb, k |-> -1, grad |-> FALSE, labelled |-> FALSE,
     live |-> {}, inputs |-> <<>>]
ForwardEvent(op, mb, grad, labelled, live) ==
    [Event(op, mb) EXCEPT !.grad = grad, !.labelled = labelled, !.live = live]
LossEvent(op, mb, k, inputs) == [Event(op, mb) EXCEPT !.k = k, !.inputs = inputs]

\* accum_features[key].append(val), or accum_features[key] = [val]
AppendFeatures(features, modelout) ==
    [key \in DOMAIN features \cup DOMAIN modelout |->
        IF key \notin DOMAIN features THEN <<modelout[key]>>
        ELSE IF key \in DOMAIN modelout THEN Append(features[key], modelout[key])
        ELSE features[key]]

\* model(allimages, alltexts) in the commit loop, under autocast only.
RecomputeDetached(mb) == ModelOut(mb, FALSE)
RecomputeForward(mb) == ModelOut(mb, TRUE)

\* model(allimages, alltexts) under torch.no_grad().
TrackedForward(mb) == ModelOut(mb, TRUE)
NoGradForward(mb) == ModelOut(mb, FALSE)

\* ((i + 1) % args.accum_freq) > 0
NeverContinue(i, K) == FALSE
ContinueTwice(i, K) == ((i + 1) % (2 * K)) > 0
Continue(i, K) == ((i + 1) % K) > 0

\* len(accum_mtl_labels) not in {0, args.accum_freq}
AlwaysInconsistent(n, K) == TRUE
Inconsistent(n, K) == n \notin {0, K}

\* The accum_* lists after the optimizer step.
KeepAfterStep(a) == a
ResetAfterStep(a) == EmptyAccum

\* The accum_* lists after an inconsistent window.
ResetAfterDrop(a) == EmptyAccum

\* accumulated[:k] + [val] + accumulated[k + 1:], k counted from 0
SubstituteNothing(accumulated, k, val) == accumulated
Substitute(accumulated, k, val) ==
    SubSeq(accumulated, 1, k) \o <<val>> \o SubSeq(accumulated, k + 2, Len(accumulated))

\* list(zip(*accum_mtl_features))
Zip(lists) ==
    IF Len(lists) = 0 THEN <<>>
    ELSE [idx \in 1 .. Len(lists[1]) |-> [j \in 1 .. Len(lists) |-> lists[j][idx]]]

\* for k in range(args.accum_freq): the loop is over once k reaches K
DoneAfterOne(k, K) == k >= 1
LoopDone(k, K) == k >= K

\* backward(total_loss, ...) frees the graph it went through
RetainGraph(live, mb) == live
AfterBackward(live, mb) == live \ {mb}

ZeroLosses == [n \in LossNames |-> [sum |-> <<>>, div |-> 1]]
Term(name, mb) == [name |-> name, mb |-> mb]
AddLoss(v, terms) == [v EXCEPT !.sum = @ \o terms]

\* total_loss = contrastive_loss; total_loss += mtlloss, and
\* sum(losses.values()) without accumulation.
ContrastiveOnly(contrastive_loss, mtlloss) == contrastive_loss
TotalLoss(contrastive_loss, mtlloss) == contrastive_loss \o mtlloss

\* losses[name] / args.accum_freq
NoAverage(v, K) == v
Average(v, K) == [v EXCEPT !.div = @ * K]

InitLoop ==
    [pc |-> "batch", i |-> 0, k |-> 0, mtllabels |-> FALSE, losses |-> ZeroLosses,
     live |-> {}, prev |-> "none", steps |-> 0, dropped |-> 0]

\* One microbatch with accum_freq > 1, from the top of the loop body to
\* `continue` or to the start of the commit loop.
CacheStep(labelled) ==
    /\ loop.pc = "batch" /\ loop.i < MaxBatches /\ args.accum_freq > 1
    /\ labelled => args.has_mtl
    /\ LET K == args.accum_freq
           i == loop.i
           base == IF i % K = 0 THEN <<>> ELSE trace
           modelout == NoGradForward(i)
           pairs == args.has_mtl /\ ~labelled
           cached ==
               [images |-> Append(accum.images, Images(i)),
                texts |-> Append(accum.texts, Texts(i)),
                features |-> AppendFeatures(accum.features, modelout),
                mtl_datasets |-> IF args.has_mtl THEN Append(accum.mtl_datasets, MtlDataset(i))
                                 ELSE accum.mtl_datasets,
                mtl_batches |-> IF args.has_mtl THEN Append(accum.mtl_batches, MtlBatch(i))
                                ELSE accum.mtl_batches,
                mtl_labels |-> IF args.has_mtl /\ labelled
                               THEN Append(accum.mtl_labels, MtlLabels(i))
                               ELSE accum.mtl_labels,
                mtl_features |-> IF pairs
                                 THEN Append(accum.mtl_features, MtlFeats(i, FALSE, FALSE))
                                 ELSE accum.mtl_features]
           events ==
               <<Event("zero_grad", i),
                 ForwardEvent("forward", i, modelout["left_features"].requires_grad,
                              labelled, {})>>
               \o (IF pairs THEN <<ForwardEvent("mtl_forward", i, FALSE, labelled, {})>>
                   ELSE <<>>)
       IN  IF Continue(i, K)
           THEN /\ accum' = cached
                /\ loop' = [loop EXCEPT !.i = i + 1, !.mtllabels = labelled]
                /\ trace' = base \o events
           ELSE IF Inconsistent(Len(cached.mtl_labels), K)
           THEN /\ accum' = ResetAfterDrop(cached)
                /\ loop' = [loop EXCEPT !.i = i + 1, !.mtllabels = labelled,
                                        !.prev = "dropped", !.dropped = @ + 1]
                /\ trace' = base \o events \o <<Event("warn", i)>>
           ELSE /\ accum' = cached
                /\ loop' = [loop EXCEPT !.pc = "commit", !.k = 0, !.mtllabels = labelled,
                                        !.losses = ZeroLosses]
                /\ trace' = base \o events \o <<Event("zero_grad", i)>>
    /\ UNCHANGED <<world_size, args, ringVars, gatherVars, labelVars, matVars, extVars>>

\* One iteration of `for k in range(args.accum_freq)`.  With auxiliary
\* losses and a model that returns a logit_bias, line 499 pops logit_bias
\* from the dictionary line 470 already took it from: KeyError.
CommitStep ==
    /\ loop.pc = "commit"
    /\ LET K == args.accum_freq
           k == loop.k
           mb == accum.images[k + 1].mb
           modelout == RecomputeForward(mb)
           inputs == [key \in DOMAIN accum.features |->
                         Substitute(accum.features[key], k, modelout[key])]
           contrastive_loss == <<Term("contrastive_loss", mb)>>
           live == loop.live \cup {mb}
           first == <<ForwardEvent("forward", mb, TRUE, FALSE, live),
                      LossEvent("loss", mb, k, inputs)>>
           mtlforward == <<ForwardEvent("mtl_forward", mb, TRUE, FALSE, live)>>
           mtlfeats == MtlFeats(mb, TRUE, loop.mtllabels)
           cached_features == Zip(accum.mtl_features)
           mtlinputs ==
               IF Len(accum.mtl_labels) = 0
               THEN [idx \in 1 .. Len(cached_features) |->
                        Substitute(cached_features[idx], k, mtlfeats[idx])]
               ELSE <<mtlfeats, <<accum.mtl_labels[k + 1]>>>>
           mtlloss == <<Term("mtl_loss", mb)>>
       IN  IF ~args.has_mtl
           THEN /\ trace' = trace \o first \o <<Event("backward", mb)>>
                /\ loop' = [loop EXCEPT
                       !.k = k + 1,
                       !.pc = IF LoopDone(k + 1, K) THEN "step" ELSE "commit",
                       !.losses = [@ EXCEPT
                           !.contrastive_loss = AddLoss(@, contrastive_loss),
                           !.loss = AddLoss(@, TotalLoss(contrastive_loss, <<>>))],
                       !.live = AfterBackward(live, mb)]
           ELSE IF args.has_bias
           THEN /\ trace' = trace \o first \o mtlforward
                /\ loop' = [loop EXCEPT
                       !.pc = "raised",
                       !.losses = [@ EXCEPT
                           !.contrastive_loss = AddLoss(@, contrastive_loss)],
                       !.live = live]
           ELSE /\ trace' = trace \o first \o mtlforward
                              \o <<LossEvent("mtl_loss", mb, k, mtlinputs),
                                   Event("backward", mb)>>
                /\ loop' = [loop EXCEPT
                       !.k = k + 1,
                       !.pc = IF LoopDone(k + 1, K) THEN "step" ELSE "commit",
                       !.mtllabels = @ \/ Len(accum.mtl_labels) # 0,
                       !.losses = [@ EXCEPT
                           !.contrastive_loss = AddLoss(@, contrastive_loss),
                           !.mtl_loss = AddLoss(@, mtlloss),
                           !.loss = AddLoss(@, TotalLoss(contrastive_loss, mtlloss))],
                       !.live = AfterBackward(live, mb)]
    /\ UNCHANGED <<world_size, args, accum, ringVars, gatherVars, labelVars, matVars, extVars>>

\* After the commit loop: the averages, the optimizer step, the reset of the
\* accum_* lists, and on to the next microbatch.
OptimizerStep ==
    /\ loop.pc = "step"
    /\ loop' = [loop EXCEPT
           !.pc = "batch", !.i = @ + 1, !.prev = "committed", !.steps = @ + 1,
           !.losses = [n \in LossNames |-> Average(loop.losses[n], args.accum_freq)]]
    /\ trace' = Append(trace, Event("step", loop.i))
    /\ accum' = ResetAfterStep(accum)
    /\ UNCHANGED <<world_size, args, ringVars, gatherVars, labelVars, matVars, extVars>>

\* One microbatch with accum_freq = 1: forward, loss, backward and optimizer
\* step in the same iteration.
PlainStep(labelled) ==
    /\ loop.pc = "batch" /\ loop.i < MaxBatches /\ args.accum_freq = 1
    /\ labelled => args.has_mtl
    /\ LET i == loop.i
           modelout == RecomputeForward(i)
           contrastive_loss == <<Term("contrastive_loss", i)>>
           mtlloss == IF args.has_mtl THEN <<Term("mtl_loss", i)>> ELSE <<>>
           mtlevents ==
               IF args.has_mtl
               THEN <<ForwardEvent("mtl_forward", i, TRUE, labelled, {i}),
                      LossEvent("mtl_loss", i, 0,
                                IF labelled
                                THEN <<MtlFeats(i, TRUE, TRUE), <<MtlLabels(i)>>>>
                                ELSE [idx \in 1 .. 2 |-> <<MtlFeats(i, TRUE, FALSE)[idx]>>])>>
               ELSE <<>>
       IN  /\ trace' = <<Event("zero_grad", i),
                         ForwardEvent("forward", i, TRUE, labelled, {i}),
                         LossEvent("loss", i, 0, [key \in FeatureKeys |-> <<modelout[key]>>])>>
                       \o mtlevents
                       \o <<Event("backward", i), Event("step", i)>>
           /\ loop' = [loop EXCEPT
                  !.i = i + 1, !.mtllabels = labelled, !.prev = "committed",
                  !.steps = @ + 1,
                  !.losses = [contrastive_loss |-> AddLoss(ZeroLosses.contrastive_loss,
                                                           contrastive_loss),
                              mtl_loss |-> AddLoss(ZeroLosses.mtl_loss, mtlloss),
                              loss |-> AddLoss(ZeroLosses.loss,
                                               TotalLoss(contrastive_loss, mtlloss))]]
    /\ UNCHANGED <<world_size, args, accum, ringVars, gatherVars, labelVars, matVars, extVars>>

AccumInit ==
    /\ world_size = 1
    /\ args \in [accum_freq : 1 .. MaxAccum, has_mtl : BOOLEAN, has_bias : BOOLEAN]
    /\ accum = EmptyAccum
    /\ loop = InitLoop
    /\ trace = <<>>
    /\ RingIdle
    /\ GatherIdle
    /\ LabelIdle
    /\ MatIdle
    /\ ExtIdle

AccumNext ==
    \/ \E labelled \in BOOLEAN : CacheStep(labelled)
    \/ CommitStep
    \/ OptimizerStep
    \/ \E labelled \in BOOLEAN : PlainStep(labelled)

SpecAccum == AccumInit /\ [][AccumNext]_vars

(***************************************************************************)
(* Properties of the accumulation loop.                                    *)
(***************************************************************************)
AccumK == args.accum_freq

\* Positions of the trace that hold a call of the given kind.
Pos(op) == {p \in 1 .. Len(trace) : trace[p].op = op}
PosIn(t, op) == {p \in 1 .. Len(t) : t[p].op = op}

\* First microbatch of the window microbatch mb belongs to, and the
\* microbatches of that window in arrival order.
WindowStart(mb) == mb - (mb % AccumK)
WindowOf(mb) == [j \in 1 .. AccumK |-> WindowStart(mb) + j - 1]

InCommit == loop.pc \in {"commit", "step", "raised"}

\* C13: a microbatch i with (i+1) mod K # 0, K > 1, issues no backward call
\* and no optimizer step and no gradient-carrying forward pass; it appends
\* its inputs and its gradient-free features to the buffers and moves on.
CachePhaseOnlyRecords ==
    [][(/\ loop.pc = "batch" /\ loop.i < MaxBatches
        /\ AccumK > 1 /\ (loop.i + 1) % AccumK # 0)
       => LET i == loop.i
          IN  /\ \A p \in 1 .. Len(trace') :
                     /\ trace'[p].op \in {"zero_grad", "forward", "mtl_forward"}
                     /\ ~trace'[p].grad
              /\ loop'.pc = "batch" /\ loop'.i = i + 1
              /\ loop'.losses = loop.losses
              /\ accum'.images = Append(accum.images, Images(i))
              /\ accum'.texts = Append(accum.texts, Texts(i))
              /\ DOMAIN accum'.features = FeatureKeys
              /\ \A key \in FeatureKeys :
                     accum'.features[key] =
                         (IF key \in DOMAIN accum.features THEN accum.features[key] ELSE <<>>)
                         \o <<Feature(key, i, FALSE)>>
              /\ IF args.has_mtl
                 THEN /\ accum'.mtl_datasets = Append(accum.mtl_datasets, MtlDataset(i))
                      /\ accum'.mtl_batches = Append(accum.mtl_batches, MtlBatch(i))
                      /\ \/ /\ accum'.mtl_labels = Append(accum.mtl_labels, MtlLabels(i))
                            /\ accum'.mtl_features = accum.mtl_features
                         \/ /\ accum'.mtl_labels = accum.mtl_labels
                            /\ accum'.mtl_features =
                                   Append(accum.mtl_features, MtlFeats(i, FALSE, FALSE))
                 ELSE /\ accum'.mtl_datasets = <<>> /\ accum'.mtl_batches = <<>>
                      /\ accum'.mtl_labels = <<>> /\ accum'.mtl_features = <<>>]_vars

\* C13 witness: two of three microbatches of a window are cached.
CachedTwoOfThree ==
    /\ AccumK = 3 /\ args.has_mtl
    /\ loop.pc = "batch" /\ loop.i = 2
    /\ Len(accum.images) = 2 /\ Len(trace) >= 4

\* Every buffer in use holds the K microbatches of the window that ends at
\* microbatch loop.i, in arrival order.
BuffersHoldWindow ==
    LET w == WindowOf(loop.i)
    IN  /\ (loop.i + 1) % AccumK = 0
        /\ accum.images = [j \in 1 .. AccumK |-> Images(w[j])]
        /\ accum.texts = [j \in 1 .. AccumK |-> Texts(w[j])]
        /\ DOMAIN accum.features = FeatureKeys
        /\ \A key \in FeatureKeys :
               accum.features[key] = [j \in 1 .. AccumK |-> Feature(key, w[j], FALSE)]
        /\ IF args.has_mtl
           THEN /\ accum.mtl_datasets = [j \in 1 .. AccumK |-> MtlDataset(w[j])]
                /\ accum.mtl_batches = [j \in 1 .. AccumK |-> MtlBatch(w[j])]
                /\ \/ /\ accum.mtl_labels = [j \in 1 .. AccumK |-> MtlLabels(w[j])]
                      /\ accum.mtl_features = <<>>
                   \/ /\ accum.mtl_labels = <<>>
                      /\ accum.mtl_features =
                             [j \in 1 .. AccumK |-> MtlFeats(w[j], FALSE, FALSE)]
           ELSE /\ accum.mtl_datasets = <<>> /\ accum.mtl_batches = <<>>
                /\ accum.mtl_labels = <<>> /\ accum.mtl_features = <<>>

CommitSubstitution ==
    /\ []((InCommit /\ AccumK > 1) =>
            \A p \in 1 .. Len(trace) :
                LET e == trace[p]
                    w == WindowOf(loop.i)
                IN  /\ e.op = "loss" =>
                        /\ e.k \in 0 .. (AccumK - 1) /\ e.mb = w[e.k + 1]
                        /\ DOMAIN e.inputs = FeatureKeys
                        /\ \A key \in FeatureKeys :
                               /\ Len(e.inputs[key]) = AccumK
                               /\ \A j \in 1 .. AccumK :
                                      e.inputs[key][j] =
                                          IF j = e.k + 1 THEN Feature(key, w[j], TRUE)
                                          ELSE accum.features[key][j]
                    /\ (e.op = "mtl_loss" /\ accum.mtl_labels = <<>>) =>
                        /\ Len(e.inputs) = 2
                        /\ \A idx \in 1 .. 2 :
                               /\ Len(e.inputs[idx]) = AccumK
                               /\ \A j \in 1 .. AccumK :
                                      e.inputs[idx][j] =
                                          IF j = e.k + 1
                                          THEN MtlFeats(w[j], TRUE, FALSE)[idx]
                                          ELSE accum.mtl_features[j][idx])
    /\ [][loop.pc = "commit" => accum' = accum]_vars

\* C15 witness: all three commit steps of a window with auxiliary pair
\* batches are done.
SubstitutedThree ==
    /\ AccumK = 3 /\ args.has_mtl /\ accum.mtl_labels = <<>>
    /\ loop.pc = "step"
    /\ Cardinality(Pos("loss")) = 3 /\ Cardinality(Pos("mtl_loss")) = 3

\* C16: in the calls of a window every zero_grad comes before every backward
\* call, the backward calls are those of microbatches k = 0, 1, ... of the
\* window in that order, and an optimizer step is the last call of its
\* window and comes after exactly K backward calls.
OneStepPerWindow ==
    LET B == Pos("backward")
        S == Pos("step")
        Z == Pos("zero_grad")
    IN  /\ \A s \in S : s = Len(trace)
        /\ B # {} => Z # {}
        /\ \A z \in Z, b \in B : z < b
        /\ \A b \in B : trace[b].mb % AccumK = Cardinality({c \in B : c < b})
        /\ Cardinality(B) <= AccumK
        /\ (S # {} \/ loop.pc = "step") => Cardinality(B) = AccumK

\* C16 witness: a window of three has taken its optimizer step.
SteppedWindowOfThree ==
    /\ AccumK = 3 /\ Pos("step") # {}
    /\ loop.pc = "batch"

\* C17: a recompute forward pass starts with no other microbatch's graph
\* live, and for k > 0 after the backward call of microbatch k-1 of the
\* window; between steps at most one graph is live.
IncrementalBackward ==
    /\ Cardinality(loop.live) <= 1
    /\ \A p \in 1 .. Len(trace) :
           LET e == trace[p]
           IN  (e.op \in {"forward", "mtl_forward"} /\ e.grad) =>
                   /\ e.live = {e.mb}
                   /\ e.mb % AccumK # 0 =>
                          \E b \in Pos("backward") : b < p /\ trace[b].mb = e.mb - 1

\* C17 witness: the recompute of the third microbatch of a window has run.
ThirdRecomputeRan ==
    /\ AccumK = 3
    /\ \E p \in Pos("forward") : trace[p].grad /\ trace[p].mb % 3 = 2

\* C18: right after the optimizer step of a window of K > 1 every named loss
\* is the sum of that term over the K microbatches of the window, in commit
\* order, divided by K.
WindowAveraging ==
    (AccumK > 1 /\ Pos("step") # {}) =>
        LET w == WindowOf(trace[Len(trace)].mb)
            c == [j \in 1 .. AccumK |-> Term("contrastive_loss", w[j])]
            m == IF args.has_mtl THEN [j \in 1 .. AccumK |-> Term("mtl_loss", w[j])]
                 ELSE <<>>
            total == IF args.has_mtl
                     THEN [n \in 1 .. (2 * AccumK) |->
                              IF n % 2 = 1 THEN c[(n + 1) \div 2] ELSE m[n \div 2]]
                     ELSE c
        IN  /\ loop.losses["contrastive_loss"] = [sum |-> c, div |-> AccumK]
            /\ loop.losses["mtl_loss"] = [sum |-> m, div |-> AccumK]
            /\ loop.losses["loss"] = [sum |-> total, div |-> AccumK]

\* C18 witness: the averages of a window of three with auxiliary losses.
AveragedWindowOfThree ==
    /\ AccumK = 3 /\ args.has_mtl /\ Pos("step") # {}
    /\ Len(loop.losses["loss"].sum) = 6

\* Label-bearing microbatches among those cached in trace t, and whether the
\* window of t was dropped.
NLabelled(t) ==
    Cardinality({p \in PosIn(t, "forward") : ~t[p].grad /\ t[p].labelled})
Dropped(t) == PosIn(t, "warn") # {}

\* C19: the step that records the K-th microbatch drops the window exactly
\* when the number of its label-bearing microbatches is neither 0 nor K; a
\* dropped window has no gradient-carrying forward pass, no loss call, no
\* backward call and no optimizer step, and its buffers are emptied.
InconsistentWindowDropped ==
    /\ [][(/\ loop.pc = "batch" /\ AccumK > 1 /\ (loop.i + 1) % AccumK = 0)
          => /\ Dropped(trace') <=> NLabelled(trace') \notin {0, AccumK}
             /\ Dropped(trace') =>
                    /\ accum' = EmptyAccum
                    /\ loop'.pc = "batch" /\ loop'.i = loop.i + 1
                    /\ loop'.losses = loop.losses]_vars
    /\ [](Dropped(trace) =>
            /\ loop.pc = "batch"
            /\ \A p \in 1 .. Len(trace) :
                   /\ trace[p].op \in {"zero_grad", "forward", "mtl_forward", "warn"}
                   /\ ~trace[p].grad)

\* C19 witness: a window of three with two label-bearing microbatches was
\* dropped.
MixedWindowDropped ==
    /\ AccumK = 3 /\ Dropped(trace) /\ NLabelled(trace) = 2

\* The microbatches the entries of the buffers and the slots of the loss
\* inputs come from.
BufferedMicrobatches ==
    {accum.images[j].mb : j \in 1 .. Len(accum.images)}
    \cup {accum.texts[j].mb : j \in 1 .. Len(accum.texts)}
    \cup UNION {{accum.features[key][j].mb : j \in 1 .. Len(accum.features[key])} :
                    key \in DOMAIN accum.features}
    \cup {accum.mtl_datasets[j].mb : j \in 1 .. Len(accum.mtl_datasets)}
    \cup {accum.mtl_batches[j].mb : j \in 1 .. Len(accum.mtl_batches)}
    \cup {accum.mtl_labels[j].mb : j \in 1 .. Len(accum.mtl_labels)}
    \cup UNION {{accum.mtl_features[j][idx].mb : idx \in 1 .. Len(accum.mtl_features[j])} :
                    j \in 1 .. Len(accum.mtl_features)}
ContrastiveSlots(e) ==
    UNION {{e.inputs[key][j].mb : j \in 1 .. Len(e.inputs[key])} : key \in DOMAIN e.inputs}

\* C20: at the first microbatch of every window the buffers are empty,
\* whatever became of the window before; the buffers and the inputs of a
\* contrastive loss call hold entries of the current window only.
BufferLifetime ==
    /\ (loop.pc = "batch" /\ loop.i % AccumK = 0) => accum = EmptyAccum
    /\ \A mb \in BufferedMicrobatches : WindowStart(mb) = WindowStart(loop.i)
    /\ \A p \in Pos("loss") :
           \A mb \in ContrastiveSlots(trace[p]) : WindowStart(mb) = WindowStart(trace[p].mb)

\* C20 witness: the window after a dropped one is committed.
CommittedAfterDropped ==
    /\ AccumK > 1 /\ loop.prev = "dropped"
    /\ loop.pc = "step" /\ accum.images # <<>>

\* The rows of a sequence of feature blocks, whatever their gradient state,
\* and the rows of the K blocks of window w under a key.
Values(blocks) ==
    [j \in 1 .. Len(blocks) |-> [key |-> blocks[j].key, mb |-> blocks[j].mb]]
FullBatch(w, key) == [j \in 1 .. Len(w) |-> [key |-> key, mb |-> w[j]]]

\* C21: every contrastive loss call of a committed window of K > 1
\* microbatches is made on the same rows, the K blocks of the window in
\* window order under each key, and the loss reported after the step is
\* the sum of the K calls' results divided by K.
AccumulationLossEquivalence ==
    AccumK > 1 =>
        /\ \A p \in Pos("loss") :
               LET e == trace[p]
               IN  /\ DOMAIN e.inputs = FeatureKeys
                   /\ \A key \in FeatureKeys :
                          Values(e.inputs[key]) = FullBatch(WindowOf(e.mb), key)
        /\ Pos("step") # {} =>
               LET total == loop.losses["contrastive_loss"]
                   w == WindowOf(trace[Len(trace)].mb)
               IN  /\ Cardinality(Pos("loss")) = AccumK
                   /\ total.div = AccumK
                   /\ Len(total.sum) = AccumK
                   /\ \A j \in 1 .. AccumK :
                          /\ total.sum[j] = Term("contrastive_loss", w[j])
                          /\ \E p \in Pos("loss") : trace[p].mb = w[j] /\ trace[p].k = j - 1

\* C21 witness: the second window of three microbatches has been committed
\* and its averaged loss reported.
SecondWindowReported ==
    /\ AccumK = 3 /\ Pos("step") # {} /\ loop.i = 6
    /\ Cardinality(Pos("loss")) = 3

\* Slots of the inputs of loss call e that carry a gradient.
GradSlots(e) ==
    {j \in 1 .. AccumK :
        \E key \in DOMAIN e.inputs :
            j <= Len(e.inputs[key]) /\ e.inputs[key][j].requires_grad}

\* C22: in a window of K > 1 the k-th contrastive loss call carries the
\* gradient through slot k alone and is followed by one backward call, so
\* once the K backward calls are made every slot has carried the gradient
\* in exactly one call.
NoDoubleCounting ==
    AccumK > 1 =>
        /\ \A p \in Pos("loss") : GradSlots(trace[p]) = {trace[p].k + 1}
        /\ \A p, q \in Pos("loss") : trace[p].k = trace[q].k => p = q
        /\ Cardinality(Pos("backward")) <= Cardinality(Pos("loss"))
        /\ (loop.pc = "step" \/ Pos("step") # {}) =>
               /\ Cardinality(Pos("backward")) = AccumK
               /\ \A j \in 1 .. AccumK :
                      Cardinality({p \in Pos("loss") : j \in GradSlots(trace[p])}) = 1

\* C22 witness: the three backward calls of a window are made and the
\* optimizer step is next.
ThreeBackwardCallsMade ==
    /\ AccumK = 3 /\ loop.pc = "step"
    /\ Cardinality(Pos("backward")) = 3

(***************************************************************************)
(* Rounds and terms of the sigmoid loss.                                   *)
(***************************************************************************)
\* Exchanges of the given kind worker r's forward pass has completed.
RoundsOf(r, kind) ==
    Cardinality({n \in 1 .. Len(wk[r].hist) : wk[r].hist[n].kind = kind})
ForwardOver(r) == wk[r].pc \in {"bwd", "done"}

\* C24 as stated: the bidirectional forward pass of every worker makes
\* ceil((W-1)/2) two-sided exchanges and one single-sided exchange more if
\* W-1 is odd.
RoundCountCeil ==
    (entry = "forward" /\ bidir) =>
        \A r \in Workers :
            ForwardOver(r) =>
                /\ RoundsOf(r, "bi") = world_size \div 2
                /\ RoundsOf(r, "uni") = (world_size - 1) % 2

\* C24 amended: the bidirectional forward pass of every worker makes
\* floor((W-1)/2) two-sided exchanges and one single-sided exchange more if
\* W-1 is odd, never more on the way.
RoundCountFloor ==
    (entry = "forward" /\ bidir) =>
        \A r \in Workers :
            /\ RoundsOf(r, "bi") <= (world_size - 1) \div 2
            /\ RoundsOf(r, "uni") <= (world_size - 1) % 2
            /\ ForwardOver(r) =>
                   /\ RoundsOf(r, "bi") = (world_size - 1) \div 2
                   /\ RoundsOf(r, "uni") = (world_size - 1) % 2

\* C24 witness: with four workers a forward pass is over after one
\* two-sided and one single-sided exchange.
FourWorkersTwoRounds ==
    /\ world_size = 4 /\ entry = "forward" /\ bidir
    /\ \E r \in Workers :
           ForwardOver(r) /\ RoundsOf(r, "bi") = 1 /\ RoundsOf(r, "uni") = 1

\* SigLipLoss.get_ground_truth: labels = -ones((n, n)), and unless
\* negative_only, labels = 2 * eye(n) + labels.
AllNegative(num_logits, negative_only) ==
    [i \in 1 .. num_logits |-> [j \in 1 .. num_logits |-> -1]]
SigLipGroundTruth(num_logits, negative_only) ==
    LET ones == [i \in 1 .. num_logits |-> [j \in 1 .. num_logits |-> 1]]
        eye == [i \in 1 .. num_logits |->
                   [j \in 1 .. num_logits |-> IF i = j THEN 1 ELSE 0]]
        labels == [i \in 1 .. num_logits |-> [j \in 1 .. num_logits |-> -ones[i][j]]]
    IN  IF ~negative_only
        THEN [i \in 1 .. num_logits |->
                 [j \in 1 .. num_logits |-> 2 * eye[i][j] + labels[i][j]]]
        ELSE labels

\* The calls of _loss worker r's forward pass has added up so far: the
\* local one on its own text features, then one per received block.
LossTerms(r) ==
    <<[text_features |-> Text(r), negative_only |-> FALSE]>>
    \o [n \in 1 .. Len(wk[r].scored) |->
           [text_features |-> wk[r].scored[n], negative_only |-> TRUE]]

\* The label matrix of a call of _loss for batch sizes up to MaxBatch: +1
\* on the diagonal unless negative_only, -1 everywhere else.
LabelsAsClaimed(negative_only) ==
    \A N \in 1 .. MaxBatch :
        LET labels == SigLipGroundTruth(N, negative_only)
        IN  /\ Len(labels) = N
            /\ \A i \in 1 .. N :
                   /\ Len(labels[i]) = N
                   /\ \A j \in 1 .. N :
                          labels[i][j] = IF ~negative_only /\ i = j THEN 1 ELSE -1
LocalLabels == LabelsAsClaimed(FALSE)
ExchangedLabels == LabelsAsClaimed(TRUE)

\* C25: on every worker the first term of the sigmoid loss is the local
\* one, with labels +1 on the diagonal and -1 elsewhere; every further
\* term is on a received block with labels -1 everywhere; a finished
\* forward pass has added the local term and exactly W-1 others.
SigmoidLabelMatrices ==
    entry = "forward" =>
        \A r \in Workers :
            LET terms == LossTerms(r)
            IN  /\ Len(terms) <= world_size
                /\ ForwardOver(r) => Len(terms) = world_size
                /\ terms[1].text_features = Text(r)
                /\ ~terms[1].negative_only /\ LocalLabels
                /\ \A n \in 2 .. Len(terms) :
                       /\ terms[n].negative_only /\ ExchangedLabels
                       /\ terms[n].text_features # Text(r)
                       /\ terms[n].text_features.tag = "T"

\* C25 witness: a worker of three has added its local term and the terms of
\* both received blocks.
LocalPlusTwoNegatives ==
    /\ world_size = 3 /\ entry = "forward"
    /\ \E r \in Workers : ForwardOver(r) /\ Len(LossTerms(r)) = 3

(***************************************************************************)
(* ThreeTowerLoss.forward on every worker (open_clip/loss.py).  The flags  *)
(* local_loss, gather_with_grad, use_horovod and the batch size nrows are  *)
(* those of the instance; the teacher tensor has nrows * width elements.   *)
(***************************************************************************)
\* Largest embedding width of the teacher features.
MaxWidth == 2

Families == <<"image", "text", "teacher">>
FamilySet == {"image", "text", "teacher"}

\* The keys of the nested logits dictionary, in insertion order.
PairOrder ==
    <<<<"image", "text">>, <<"image", "teacher">>, <<"text", "image">>,
      <<"text", "teacher">>, <<"teacher", "image">>, <<"teacher", "text">>>>
Pairs == {PairOrder[n] : n \in 1 .. Len(PairOrder)}

\* bool(tensor): ambiguous for more than one element, else the truth of
\* the one element.
TensorBool(numel, zero) ==
    IF numel > 1 THEN "RuntimeError" ELSE IF zero THEN "False" ELSE "True"

\* `if self.world_size > 1:` in get_logits
AlwaysGather(ws) == "gather"
TowerStart(ws) == IF ws > 1 THEN "gather" ELSE "logits"

\* ThreeTowerLoss.get_logits once the features are gathered.
LogitsOfGathered(ws, ll, feats, all) ==
    [p \in Pairs |-> MatMulT(all[p[1]], all[p[2]])]
ThreeTowerLogits(ws, ll, feats, all) ==
    [p \in Pairs |->
        IF ws > 1
        THEN IF ll THEN MatMulT(feats[p[1]], all[p[2]])
             ELSE IF p \in {<<"image", "text">>, <<"image", "teacher">>,
                            <<"text", "teacher">>}
                  THEN MatMulT(all[p[1]], all[p[2]])
                  ELSE Transpose(MatMulT(all[p[2]], all[p[1]]))
        ELSE MatMulT(feats[p[1]], feats[p[2]])]

\* F.cross_entropy(similarity, labels)
CrossEntropy(similarity, labels) == [logits |-> similarity, labels |-> labels]

\* {f'{i}-{j}_loss': F.cross_entropy(similarity, labels) / 6 ...}
ThreeTowerLosses(logits, labels) ==
    [p \in DOMAIN logits |-> [ce |-> CrossEntropy(logits[p], labels), div |-> 6]]

\* sum(losses.values())
SumValues(losses) == [sum |-> [n \in 1 .. Len(PairOrder) |-> losses[PairOrder[n]]]]

IdleTowerWorker ==
    [pc |-> "off", m |-> 1,
     all_features |-> [f \in FamilySet |-> <<>>],
     logits |-> <<>>, labels |-> <<>>, cache |-> NoCache,
     losses |-> <<>>, ret |-> <<>>, error |-> "none"]

TowerFeatures(r) == [f \in FamilySet |-> Features(f, r, nrows)]
TowerAllGather(m) == [k \in 1 .. world_size |-> tcoll[m][k - 1]]

\* gather(features): the worker hands its tensor to the collective.
TowerEnter(r) ==
    LET me == tw[r]
        m == Families[me.m]
    IN  /\ r \in GWorkers
        /\ me.pc = "gather"
        /\ tcoll' = [tcoll EXCEPT ![m][r] = Features(m, r, nrows)]
        /\ tw' = [tw EXCEPT ![r].pc = "wait"]
        /\ UNCHANGED <<world_size, tcfg, ringVars, gatherVars, labelVars, matVars,
                       accumVars, factoryVars, unevenVars,
                       layoutVars, skewVars>>

\* gather(features) returns; after the text features gather_features
\* evaluates `if teacher_features`.
TowerExit(r) ==
    LET me == tw[r]
        m == Families[me.m]
        all == GatherFeatures(Features(m, r, nrows), r, world_size, TowerAllGather(m),
                              use_horovod, gather_with_grad, local_loss)
        truth == TensorBool(nrows * tcfg.width, tcfg.zero)
    IN  /\ r \in GWorkers
        /\ me.pc = "wait"
        /\ \A k \in GWorkers : tcoll[m][k] # <<>>
        /\ tw' = [tw EXCEPT ![r] =
                     IF m = "image"
                     THEN [me EXCEPT !.all_features[m] = all, !.m = 2, !.pc = "gather"]
                     ELSE IF m = "teacher"
                     THEN [me EXCEPT !.all_features[m] = all, !.pc = "logits"]
                     ELSE IF truth = "RuntimeError"
                     THEN [me EXCEPT !.all_features[m] = all, !.pc = "raised",
                                     !.error = "RuntimeError"]
                     ELSE IF truth = "True"
                     THEN [me EXCEPT !.all_features[m] = all, !.m = 3, !.pc = "gather"]
                     ELSE [me EXCEPT !.all_features[m] = all, !.pc = "logits"]]
        /\ UNCHANGED <<world_size, tcfg, tcoll, ringVars, gatherVars, labelVars, matVars,
                       accumVars, factoryVars, unevenVars,
                       layoutVars, skewVars>>

\* The rest of forward: the six logits, the labels, the six terms.  With
\* all_teacher_features None the first `.T` on it raises.
TowerLogits(r, output_dict) ==
    LET me == tw[r]
        logits == ThreeTowerLogits(world_size, local_loss, TowerFeatures(r),
                                   me.all_features)
        gt == get_ground_truth(me.cache, DeviceOf(r), Len(logits[<<"image", "text">>]),
                               r, world_size, local_loss, CacheLabels)
        losses == ThreeTowerLosses(logits, gt.labels)
    IN  /\ r \in GWorkers
        /\ me.pc = "logits"
        /\ tw' = [tw EXCEPT ![r] =
                     IF world_size > 1 /\ me.all_features["teacher"] = None
                     THEN [me EXCEPT !.pc = "raised", !.error = "AttributeError"]
                     ELSE [me EXCEPT !.logits = logits, !.labels = gt.labels,
                                     !.cache = gt.cache, !.losses = losses,
                                     !.ret = [output_dict |-> output_dict,
                                              value |-> IF output_dict THEN losses
                                                        ELSE SumValues(losses)],
                                     !.pc = "done"]]
        /\ UNCHANGED <<world_size, tcfg, tcoll, ringVars, gatherVars, labelVars, matVars,
                       accumVars, factoryVars, unevenVars,
                       layoutVars, skewVars>>

TowerInitState ==
    /\ tcfg \in [width : 1 .. MaxWidth, zero : BOOLEAN]
    /\ tw = [r \in GRanks |->
                [IdleTowerWorker EXCEPT
                    !.pc = IF r >= world_size THEN "off" ELSE TowerStart(world_size)]]
    /\ tcoll = [m \in FamilySet |-> [r \in GRanks |-> <<>>]]

TowerInit ==
    /\ world_size \in 1 .. MaxGatherW
    /\ local_loss \in BOOLEAN
    /\ gather_with_grad \in BOOLEAN
    /\ use_horovod \in BOOLEAN
    /\ nrows \in 1 .. MaxBatch
    /\ gw = [r \in GRanks |-> IdleGatherWorker]
    /\ coll = [m \in {"image", "text"} |-> [r \in GRanks |-> <<>>]]
    /\ TowerInitState
    /\ RingIdle
    /\ LabelIdle
    /\ MatIdle
    /\ AccumIdle
    /\ FactoryIdle
    /\ UnevenIdle
    /\ LaterIdle

TowerNext ==
    \E r \in GRanks :
        \/ TowerEnter(r)
        \/ TowerExit(r)
        \/ \E output_dict \in BOOLEAN : TowerLogits(r, output_dict)

SpecTower == TowerInit /\ [][TowerNext]_vars

\* The six terms a finished forward call of worker r is to hold: one per
\* ordered pair of distinct families, the cross-entropy of the logits of
\* the rows of the first family against the columns of the second, over 6.
SixTerms(r) ==
    LET me == tw[r]
    IN  /\ DOMAIN me.losses = Pairs /\ Cardinality(Pairs) = 6
        /\ \A p \in Pairs :
               /\ me.losses[p] = [ce |-> CrossEntropy(me.logits[p], me.labels), div |-> 6]
               /\ me.logits[p] # <<>>
               /\ \A a \in 1 .. Len(me.logits[p]) :
                      \A b \in 1 .. Len(me.logits[p][a]) :
                          {x.mod : x \in me.logits[p][a][b]} = {p[1], p[2]}
        /\ IF me.ret.output_dict THEN me.ret.value = me.losses
           ELSE me.ret.value = [sum |-> [n \in 1 .. 6 |-> me.losses[PairOrder[n]]]]

\* C26: for every world size and either local-loss setting a forward call
\* of the multi-tower loss does not raise and ends with six named terms,
\* each the cross-entropy of its direction over 6, and their sum.
SixTermsAtEveryWorldSize ==
    \A r \in GWorkers :
        /\ tw[r].pc # "raised"
        /\ tw[r].pc = "done" => SixTerms(r)

\* On a single worker the forward call does end with the six terms.
SixTermsOnOneWorker ==
    world_size = 1 => \A r \in GWorkers : tw[r].pc # "raised" /\ (tw[r].pc = "done" => SixTerms(r))

(***************************************************************************)
(* The three loss engines on a single worker (world_size = 1).             *)
(***************************************************************************)
\* SigLipLoss.forward with world_size = 1: the local term and no exchange;
\* loss.backward() then reaches the worker's own features only.
SigLipSingle(r) ==
    /\ r \in Workers
    /\ world_size = 1
    /\ wk[r].pc = "fwd"
    /\ wk' = [wk EXCEPT ![r].pc = "done", ![r].grad = LocalTerm(r, Text(r))]
    /\ UNCHANGED <<world_size, bidir, entry, eager, chan, nposted, gatherVars,
                   labelVars, matVars, accumVars, extVars>>

SingleInit ==
    /\ world_size = 1
    /\ entry = "forward"
    /\ bidir \in BOOLEAN
    /\ eager \in BOOLEAN
    /\ wk = [r \in Ranks |-> InitWorker(r, world_size, entry)]
    /\ chan = [s \in Ranks |-> [d \in Ranks |-> <<>>]]
    /\ nposted = [d \in Ranks |-> [s \in Ranks |-> 0]]
    /\ local_loss \in BOOLEAN
    /\ gather_with_grad \in BOOLEAN
    /\ use_horovod \in BOOLEAN
    /\ nrows \in 1 .. MaxBatch
    /\ gw = [r \in GRanks |->
                [IdleGatherWorker EXCEPT
                    !.pc = IF r >= world_size THEN "off"
                           ELSE IF world_size > 1 THEN "gather" ELSE "logits"]]
    /\ coll = [m \in {"image", "text"} |-> [r \in GRanks |-> <<>>]]
    /\ TowerInitState
    /\ LabelIdle
    /\ MatIdle
    /\ AccumIdle
    /\ FactoryIdle
    /\ UnevenIdle
    /\ LaterIdle

SingleNext ==
    \E r \in Workers :
        \/ Logits(r)
        \/ \E output_dict \in BOOLEAN : TowerLogits(r, output_dict)
        \/ SigLipSingle(r)

SpecSingle == SingleInit /\ [][SingleNext]_vars

\* Nothing was handed to an all-gather and nothing was sent or posted.
NoCommunication ==
    /\ \A m \in DOMAIN coll : \A r \in DOMAIN coll[m] : coll[m][r] = <<>>
    /\ \A m \in DOMAIN tcoll : \A r \in DOMAIN tcoll[m] : tcoll[m][r] = <<>>
    /\ \A s \in Ranks, d \in Ranks : chan[s][d] = <<>> /\ nposted[d][s] = 0

\* C23: with world_size = 1 no engine hands anything to an all-gather or
\* to a send or receive, and the logits of the softmax loss, of the
\* multi-tower loss and the one term of the sigmoid loss are computed from
\* the caller's own tensors as they were passed.
SingleWorkerNoCommunication ==
    world_size = 1 =>
        /\ NoCommunication
        /\ gw[0].pc \in {"logits", "done"}
        /\ gw[0].pc = "done" =>
               /\ gw[0].logits_per_image =
                      MatMulT(Features("image", 0, nrows), Features("text", 0, nrows))
               /\ gw[0].logits_per_text =
                      MatMulT(Features("text", 0, nrows), Features("image", 0, nrows))
        /\ tw[0].pc \in {"logits", "done"}
        /\ tw[0].pc = "done" =>
               \A p \in Pairs :
                   tw[0].logits[p] =
                       MatMulT(Features(p[1], 0, nrows), Features(p[2], 0, nrows))
        /\ wk[0].pc \in {"fwd", "done"}
        /\ LossTerms(0) = <<[text_features |-> Text(0), negative_only |-> FALSE]>>
        /\ wk[0].hist = <<>> /\ wk[0].bhist = <<>>
        /\ wk[0].pc = "done" => wk[0].grad = LocalTerm(0, Text(0))

\* C23 witness: all three engines have returned on the single worker.
ThreeEnginesReturned ==
    /\ world_size = 1
    /\ gw[0].pc = "done" /\ tw[0].pc = "done" /\ wk[0].pc = "done"
    /\ nrows = 2

(***************************************************************************)
(* The mapping of named losses a step reports (losses_m of train.py).      *)
(***************************************************************************)
\* How often term t occurs in the sum of a loss value, and in the sums of
\* the entries of the reported mapping under the names in S.
Occurs(v, t) == Cardinality({n \in 1 .. Len(v.sum) : v.sum[n] = t})
RECURSIVE OccursIn(_, _)
OccursIn(S, t) ==
    IF S = {} THEN 0
    ELSE LET name == CHOOSE n \in S : TRUE
         IN  Occurs(loop.losses[name], t) + OccursIn(S \ {name}, t)
ReportedTerms ==
    UNION {{loop.losses[name].sum[n] : n \in 1 .. Len(loop.losses[name].sum)} :
               name \in LossNames}
Reported == Pos("step") # {}

\* C27 as stated: the entries of every reported mapping add up to the total
\* loss of the step, the entry named loss.
BreakdownSumsToTotal ==
    Reported =>
        \A t \in ReportedTerms : OccursIn(LossNames, t) = Occurs(loop.losses["loss"], t)

\* C27 amended: in every reported mapping the entries other than loss add
\* up to the entry named loss, the total of the step, and have its divisor.
BreakdownTermsSumToTotal ==
    Reported =>
        /\ ReportedTerms # {}
        /\ \A t \in ReportedTerms :
               OccursIn(LossNames \ {"loss"}, t) = Occurs(loop.losses["loss"], t)
        /\ \A name \in LossNames : loop.losses[name].div = loop.losses["loss"].div

\* C27 witness: the mapping of a window of two with auxiliary losses is
\* reported.
BreakdownReported ==
    /\ Reported /\ args.has_mtl
    /\ AccumK = 2
    /\ Len(loop.losses["loss"].sum) = 4 /\ Len(loop.losses["mtl_loss"].sum) = 2

(***************************************************************************)
(* Construction of the contrastive loss (training/factory.py) and of the   *)
(* sigmoid loss of open_clip/loss.py.  A model name is the set of the      *)
(* markers it contains.                                                    *)
(***************************************************************************)
Markers == {"coca", "3towers"}

Loss(class, hv) ==
    [by |-> "factory", class |-> class, error |-> "none", use_horovod |-> hv]
Raised(by, error) ==
    [by |-> by, class |-> "none", error |-> error, use_horovod |-> FALSE]

\* _create_contrastive_loss(args)
CreateWithoutAssert(a) ==
    Loss(IF a.matryoshka THEN "MatryoshkaSigLIPLoss" ELSE "SigLIPLoss", a.horovod)
CreateMatryoshkaFirst(a) ==
    IF a.distill THEN Loss("DistillInfoNCELoss", a.horovod)
    ELSE IF "coca" \in a.model THEN Loss("CoCaLoss", a.horovod)
    ELSE IF "3towers" \in a.model THEN Loss("ThreeTowersLoss", a.horovod)
    ELSE IF a.matryoshka THEN Loss("MatryoshkaInfoNCELoss", a.horovod)
    ELSE IF a.siglip
    THEN IF a.horovod THEN Raised("factory", "AssertionError")
         ELSE Loss("SigLIPLoss", FALSE)
    ELSE Loss("InfoNCELoss", a.horovod)
_create_contrastive_loss(a) ==
    IF a.distill THEN Loss("DistillInfoNCELoss", a.horovod)
    ELSE IF "coca" \in a.model THEN Loss("CoCaLoss", a.horovod)
    ELSE IF "3towers" \in a.model THEN Loss("ThreeTowersLoss", a.horovod)
    ELSE IF a.siglip
    THEN IF a.horovod THEN Raised("factory", "AssertionError")
         ELSE IF a.matryoshka THEN Loss("MatryoshkaSigLIPLoss", FALSE)
         ELSE Loss("SigLIPLoss", FALSE)
    ELSE IF a.matryoshka THEN Loss("MatryoshkaInfoNCELoss", a.horovod)
    ELSE Loss("InfoNCELoss", a.horovod)

\* SigLipLoss.__init__ of open_clip/loss.py
SigLipLossInit(cache_labels, bd, hv) ==
    IF hv THEN Raised("SigLipLoss", "AssertionError")
    ELSE [by |-> "SigLipLoss", class |-> "SigLipLoss", error |-> "none",
          use_horovod |-> hv]

CreateLoss ==
    /\ built = NoLoss
    /\ built' = _create_contrastive_loss(fargs)
    /\ UNCHANGED <<world_size, fargs, ringVars, gatherVars, labelVars, matVars,
                   accumVars, towerVars, unevenVars,
                   layoutVars, skewVars>>

ConstructSigLipLoss(cache_labels, bd) ==
    /\ built = NoLoss
    /\ built' = SigLipLossInit(cache_labels, bd, fargs.horovod)
    /\ UNCHANGED <<world_size, fargs, ringVars, gatherVars, labelVars, matVars,
                   accumVars, towerVars, unevenVars,
                   layoutVars, skewVars>>

FactoryInit ==
    /\ world_size \in 1 .. MaxGatherW
    /\ fargs \in [distill : BOOLEAN, model : SUBSET Markers, siglip : BOOLEAN,
                  matryoshka : BOOLEAN, horovod : BOOLEAN]
    /\ built = NoLoss
    /\ RingIdle
    /\ GatherIdle
    /\ LabelIdle
    /\ MatIdle
    /\ AccumIdle
    /\ TowerIdle
    /\ UnevenIdle
    /\ LaterIdle

FactoryNext ==
    \/ CreateLoss
    \/ \E cache_labels \in BOOLEAN, bd \in BOOLEAN : ConstructSigLipLoss(cache_labels, bd)

SpecFactory == FactoryInit /\ [][FactoryNext]_vars

SigmoidClasses == {"SigLIPLoss", "MatryoshkaSigLIPLoss", "SigLipLoss"}
Constructed == built # NoLoss

\* Nothing was sent, posted or handed to an all-gather of the softmax loss.
NothingIssued ==
    /\ \A m \in DOMAIN coll : \A r \in DOMAIN coll[m] : coll[m][r] = <<>>
    /\ \A s \in Ranks, d \in Ranks : chan[s][d] = <<>> /\ nposted[d][s] = 0

\* C28 as stated: whenever the sigmoid loss is asked for together with the
\* Horovod backend, whatever the other flags, construction ends in an
\* error and nothing has been issued.
SigmoidWithHorovodRejected ==
    (Constructed /\ fargs.horovod /\ (fargs.siglip \/ built.by = "SigLipLoss")) =>
        built.error = "AssertionError" /\ NothingIssued

\* C28 amended: construction ends in an error, with nothing issued,
\* whenever the factory gets as far as the sigmoid loss (siglip set, no
\* distillation, a model name without coca and 3towers) or SigLipLoss is
\* constructed directly, together with the Horovod backend; no sigmoid
\* loss is ever constructed with Horovod.
SelectedSigmoidWithHorovodRejected ==
    Constructed =>
        /\ NothingIssued
        /\ (/\ fargs.horovod
            /\ \/ built.by = "SigLipLoss"
               \/ fargs.siglip /\ ~fargs.distill /\ fargs.model = {})
           => built.error = "AssertionError"
        /\ (built.class \in SigmoidClasses /\ fargs.horovod) => FALSE

\* C28 witness: the factory was asked for the matryoshka sigmoid loss with
\* Horovod and raised.
FactoryRaised ==
    /\ fargs.siglip /\ fargs.horovod /\ fargs.matryoshka
    /\ built.by = "factory" /\ built.error = "AssertionError"

(***************************************************************************)
(* The gather and the ring exchange when the workers' batches differ in    *)
(* size.  Every receive buffer is torch.zeros_like of the caller's own     *)
(* tensor; neither function compares shapes, so what a buffer holds after  *)
(* a peer sent a tensor of another size is left to the backend: the call   *)
(* raises, or it returns with the rows that fit and zeros in the rest.     *)
(***************************************************************************)
Outcomes == {"raise", "return"}

ZeroRow(m, i) == [mod |-> m, owner |-> -1, idx |-> i - 1, grad |-> "none"]

\* torch.zeros_like(tensor) of n rows after tensor t was received into it.
FitBuffer(t, m, n) == [i \in 1 .. n |-> IF i <= Len(t) THEN t[i] ELSE ZeroRow(m, i)]

UnevenFeatures(m, r) == Features(m, r, urows[r])

\* The buffers of worker r after the all-gather of modality m.
GatheredInto(m, r) ==
    [k \in 1 .. world_size |-> FitBuffer(UnevenFeatures(m, k - 1), m, urows[r])]

SameRowsEverywhere(r) == \A k \in GWorkers : urows[k] = urows[r]
SameRowsOnLeft(r) == urows[LeftRank(r, world_size)] = urows[r]

IdleUnevenWorker == [pc |-> "off", op |-> "none", value |-> <<>>, logits |-> <<>>]

\* GatherFeatures.__call__ without Horovod, then the logits of the image
\* features against the gathered text features.
UnevenGather(r, outcome) ==
    LET all == GatherFeatures(UnevenFeatures("text", r), r, world_size,
                              GatheredInto("text", r), FALSE, gather_with_grad,
                              local_loss)
    IN  /\ r \in GWorkers
        /\ ug[r].pc = "call"
        /\ SameRowsEverywhere(r) => outcome = "return"
        /\ ug' = [ug EXCEPT ![r] =
                     IF outcome = "raise"
                     THEN [@ EXCEPT !.pc = "raised", !.op = "gather"]
                     ELSE [pc |-> "returned", op |-> "gather", value |-> all,
                           logits |-> MatMulT(UnevenFeatures("image", r), all)]]
        /\ UNCHANGED <<world_size, urows, ringVars, gatherVars, labelVars, matVars,
                       accumVars, towerVars, factoryVars,
                       layoutVars, skewVars>>

\* neighbour_exchange(left_rank, right_rank, text_features), then the
\* negative-only logits against the received block.
UnevenExchange(r, outcome) ==
    LET left == LeftRank(r, world_size)
        tensor_recv == FitBuffer(UnevenFeatures("text", left), "text", urows[r])
    IN  /\ r \in GWorkers
        /\ ug[r].pc = "call"
        /\ SameRowsOnLeft(r) => outcome = "return"
        /\ ug' = [ug EXCEPT ![r] =
                     IF outcome = "raise"
                     THEN [@ EXCEPT !.pc = "raised", !.op = "exchange"]
                     ELSE [pc |-> "returned", op |-> "exchange", value |-> tensor_recv,
                           logits |-> MatMulT(UnevenFeatures("image", r), tensor_recv)]]
        /\ UNCHANGED <<world_size, urows, ringVars, gatherVars, labelVars, matVars,
                       accumVars, towerVars, factoryVars,
                       layoutVars, skewVars>>

UnevenInit ==
    /\ world_size \in 2 .. MaxGatherW
    /\ urows \in [GRanks -> 1 .. MaxBatch]
    /\ \A r \in GRanks : r >= world_size => urows[r] = 1
    /\ ug = [r \in GRanks |->
                [IdleUnevenWorker EXCEPT !.pc = IF r < world_size THEN "call" ELSE "off"]]
    /\ local_loss \in BOOLEAN
    /\ gather_with_grad \in BOOLEAN
    /\ use_horovod = FALSE
    /\ nrows = 0
    /\ gw = [r \in GRanks |-> IdleGatherWorker]
    /\ coll = [m \in {"image", "text"} |-> [r \in GRanks |-> <<>>]]
    /\ RingIdle
    /\ LabelIdle
    /\ MatIdle
    /\ AccumIdle
    /\ TowerIdle
    /\ FactoryIdle
    /\ LaterIdle

UnevenNext ==
    \E r \in GRanks, outcome \in Outcomes :
        \/ UnevenGather(r, outcome)
        \/ UnevenExchange(r, outcome)

SpecUneven == UnevenInit /\ [][UnevenNext]_vars

\* Rows of a tensor no worker produced.
Unfilled(t) == {i \in 1 .. Len(t) : t[i].owner = -1}

\* C29: a gather or ring exchange of a worker whose peer holds a different
\* number of rows ends in an error; no call returns logits computed from
\* a buffer that was only partly filled or that lacks rows of the peer.
UnevenBatchesFail ==
    \A r \in GWorkers :
        /\ (ug[r].op = "gather" /\ ~SameRowsEverywhere(r)) => ug[r].pc = "raised"
        /\ (ug[r].op = "exchange" /\ ~SameRowsOnLeft(r)) => ug[r].pc = "raised"
        /\ ug[r].pc = "returned" => Unfilled(ug[r].value) = {}

\* With equal batch sizes both calls return completely filled tensors.
EvenBatchesReturn ==
    \A r \in GWorkers :
        (ug[r].pc # "call" /\ SameRowsEverywhere(r)) =>
            /\ ug[r].pc = "returned"
            /\ Unfilled(ug[r].value) = {}

(***************************************************************************)
(* SigLIPLoss.forward (training/loss/siglip.py) called directly on a       *)
(* single worker with and without explicit logit_scale and logit_bias.     *)
(***************************************************************************)
SigLIPForward(left_features, right_features, logit_scale, logit_bias) ==
    /\ ~mcall.made
    /\ mcall' = [made |-> TRUE,
                 left_features |-> left_features, right_features |-> right_features,
                 logit_scale |-> logit_scale, logit_bias |-> logit_bias,
                 ret |-> SigLIPLossForward(mloss, left_features, right_features,
                                           logit_scale, logit_bias)]
    /\ UNCHANGED <<world_size, mloss, ringVars, gatherVars, labelVars, accumVars,
                   extVars>>

\* SigLIPLoss(temperature=0.05, logit_bias=...)
SigLIPInit ==
    /\ world_size = 1
    /\ \E logit_bias \in {None, <<-1>>} :
           mloss = [dims |-> <<>>, weights |-> <<>>,
                    logit_scale |-> <<DefaultLogitScale>>, logit_bias |-> logit_bias]
    /\ mcall = NoMCall
    /\ RingIdle
    /\ GatherIdle
    /\ LabelIdle
    /\ AccumIdle
    /\ ExtIdle

SigLIPNext ==
    \E left_features \in FeatureTensors, right_features \in FeatureTensors,
       logit_scale \in {None, <<0>>, <<2>>}, logit_bias \in {None, <<0>>, <<1>>} :
        SigLIPForward(left_features, right_features, logit_scale, logit_bias)

SpecSigLIP == SigLIPInit /\ [][SigLIPNext]_vars

\* The value the claim asks for: the argument unless it is absent.
Supplied(x, default) == IF x = None THEN default ELSE x

\* C30: the logits of a forward call are computed with the logit_scale and
\* logit_bias passed to it, whatever their value, 0 included, and with the
\* constructor's value only for an argument that is None.
ExplicitScaleAndBiasUsed ==
    mcall.made =>
        mcall.ret = LinOf(sigmoid_loss(mcall.left_features, mcall.right_features,
                                       Supplied(mcall.logit_scale, mloss.logit_scale),
                                       Supplied(mcall.logit_bias, mloss.logit_bias),
                                       FALSE))

\* For arguments other than 0 the call does use what was passed.
NonZeroScaleAndBiasUsed ==
    (mcall.made /\ mcall.logit_scale # <<0>> /\ mcall.logit_bias # <<0>>) =>
        mcall.ret = LinOf(sigmoid_loss(mcall.left_features, mcall.right_features,
                                       Supplied(mcall.logit_scale, mloss.logit_scale),
                                       Supplied(mcall.logit_bias, mloss.logit_bias),
                                       FALSE))

(***************************************************************************)
(* End-to-end routing of the gradients through the ring.                   *)
(***************************************************************************)
\* The gradient tensors autograd adds up on worker r: at the end its own
\* term and the two gradients the backward of the first round returned, and
\* in the backward of an earlier relay the worker's own term for the tensor
\* it received and the gradient carried back from the later round.
MergedAt(r, n) ==
    LET b == wk[r].bhist[n]
        h == wk[r].hist[b.rnd]
        carryL == IF n = 1 THEN {} ELSE wk[r].bhist[n - 1].inL.terms
        carryR == IF n = 1 THEN {} ELSE wk[r].bhist[n - 1].inR.terms
    IN  /\ LocalTerm(r, h.fromL.val) \cap carryR = {}
        /\ h.kind = "bi" => LocalTerm(r, h.fromR.val) \cap carryL = {}

\* The gradient that came back for a tensor worker r sent is about that
\* tensor and about nothing else.
About(g, t) == \A x \in g.terms : x.of = <<t.src, t.tag>>

ReturnedFor(r, n) ==
    LET b == wk[r].bhist[n]
        h == wk[r].hist[b.rnd]
    IN  b.done => /\ About(b.inR, h.inR)
                  /\ h.kind = "bi" => About(b.inL, h.inL)

\* C31: after the forward and the backward pass of the sigmoid loss the
\* gradient worker r holds for its own text features has exactly one term
\* from the loss of every worker, its own included: the terms of the other
\* workers come back hop by hop over the mirrored exchanges, every gradient
\* a worker gets back is about the tensor it sent, no two gradients that
\* are added up share a term, and nothing about another worker's features
\* ends up in r's gradient.
RingGradientRouting ==
    entry = "forward" =>
        \A r \in Workers :
            /\ \A n \in 1 .. Len(wk[r].bhist) : MergedAt(r, n) /\ ReturnedFor(r, n)
            /\ wk[r].pc = "done" =>
                  LET last == wk[r].bhist[Len(wk[r].bhist)]
                  IN  /\ wk[r].grad = {[by |-> s, of |-> <<r, "T">>] : s \in Workers}
                      /\ Cardinality(wk[r].grad) = world_size
                      /\ last.inL.terms \cap last.inR.terms = {}
                      /\ LocalTerm(r, Text(r)) \cap (last.inL.terms \cup last.inR.terms) = {}

\* C31 witness: all five workers of a ring have finished the backward pass
\* of a one-directional forward pass, four relays each.
RingGradientsDelivered ==
    /\ entry = "forward" /\ ~bidir /\ world_size = 5
    /\ \A r \in Workers : wk[r].pc = "done" /\ Len(wk[r].bhist) = 4

(***************************************************************************)
(* The label cache when caching is off.                                    *)
(***************************************************************************)
\* C39: on a loss built with cache_labels = False no sequence of
\* get_ground_truth calls changes the cache (no labels are remembered for
\* any device and the remembered width stays 0), and every call returns
\* labels computed afresh from its own arguments.
CacheDisabledStateless ==
    ~inst.cache_labels =>
        /\ inst.cache = NoCache
        /\ inst.cache.keys = {} /\ inst.cache.prev_num_logits = 0
        /\ call.made =>
              call.ret = FreshLabels(call.num_logits, inst.rank, world_size,
                                     inst.local_loss)

\* C39 witness: an instance without caching on rank 1 of two workers with
\* local-loss has answered a call for three logits.
UncachedCallMade ==
    /\ ~inst.cache_labels /\ inst.local_loss /\ world_size = 2 /\ inst.rank = 1
    /\ call.made /\ call.num_logits = 3
    /\ call.ret = <<3, 4, 5>>

(***************************************************************************)
(* The softmax loss on a single worker.                                    *)
(***************************************************************************)
\* What a single process computes: every image row against every text row
\* of the local batch, and row i labelled i.
PairwiseLogits(n) ==
    [per_image |-> MatMulT(Features("image", 0, n), Features("text", 0, n)),
     per_text |-> MatMulT(Features("text", 0, n), Features("image", 0, n)),
     labels |-> [i \in 1 .. n |-> i - 1]]

\* The labels a fresh instance returns at world_size = 1, whatever rank,
\* local_loss and cache_labels it was built with.
SingleWorkerLabels ==
    \A rk \in 0 .. MaxGatherW, ll \in BOOLEAN, cache_labels \in BOOLEAN,
       device \in Devices, n \in 1 .. MaxLogits :
        get_ground_truth(NoCache, device, n, rk, 1, ll, cache_labels).labels
            = [i \in 1 .. n |-> i - 1]

\* C38: with world_size = 1 the label of local row i is i for every setting
\* of local_loss, rank and cache_labels, no all-gather is issued, and both
\* logits matrices are those of the local features alone, so that the loss
\* is the pairwise cross-entropy of a single process.
SingleWorkerSoftmax ==
    /\ SingleWorkerLabels
    /\ world_size = 1 =>
          /\ \A m \in {"image", "text"}, r \in GRanks : coll[m][r] = <<>>
          /\ gw[0].pc = "done" =>
                /\ gw[0].labels = PairwiseLogits(nrows).labels
                /\ gw[0].logits_per_image = PairwiseLogits(nrows).per_image
                /\ gw[0].logits_per_text = PairwiseLogits(nrows).per_text

\* C38 witness: a single worker with local_loss set has computed the loss of
\* a batch of two pairs.
SingleWorkerLossComputed ==
    /\ world_size = 1 /\ local_loss /\ nrows = 2
    /\ gw[0].pc = "done" /\ gw[0].labels = <<0, 1>>
    /\ Len(gw[0].logits_per_image) = 2

(***************************************************************************)
(* The all-gathers one loss call issues.                                   *)
(***************************************************************************)
\* The tensors worker r has handed to the all-gather so far, in the order
\* of gather_features.
Issued(r) == SelectSeq(Families, LAMBDA f : tcoll[f][r] # <<>>)

\* C33: at world size > 1 every worker issues the same all-gathers in the
\* same order on a multi-tower loss call, image, then text, then teacher,
\* whatever its rank and whatever the feature tensors hold: a worker that
\* has left gather_features has issued all three.
CollectiveSequenceFixed ==
    world_size > 1 =>
        \A r \in GWorkers :
            /\ Issued(r) \in {<<>>, <<"image">>, <<"image", "text">>,
                              <<"image", "text", "teacher">>}
            /\ tw[r].pc \in {"logits", "done", "raised"}
                  => Issued(r) = <<"image", "text", "teacher">>

\* The softmax loss issues the image and then the text all-gather on every
\* worker, for every flag setting.
SoftmaxSequenceFixed ==
    world_size > 1 =>
        \A r \in GWorkers :
            /\ coll["text"][r] # <<>> => coll["image"][r] # <<>>
            /\ gw[r].pc \in {"logits", "done"}
                  => coll["image"][r] # <<>> /\ coll["text"][r] # <<>>

(***************************************************************************)
(* The auxiliary loss in the commit loop.                                  *)
(***************************************************************************)
\* C35: with auxiliary losses enabled and a model whose output holds a
\* logit_bias, no iteration of the commit loop raises, and every auxiliary
\* forward pass of the commit loop is followed by the auxiliary loss call
\* of its microbatch.
AuxiliaryBiasInCommit ==
    (args.accum_freq > 1 /\ args.has_mtl /\ args.has_bias) =>
        /\ loop.pc # "raised"
        /\ \A n \in 1 .. Len(trace) :
               (trace[n].op = "mtl_forward" /\ trace[n].grad) =>
                   /\ n < Len(trace)
                   /\ trace[n + 1].op = "mtl_loss"
                   /\ trace[n + 1].mb = trace[n].mb

\* Without a logit_bias in the model output the commit loop does get
\* through its auxiliary losses.
AuxiliaryWithoutBias ==
    (args.accum_freq > 1 /\ args.has_mtl /\ ~args.has_bias) =>
        /\ loop.pc # "raised"
        /\ \A n \in 1 .. Len(trace) :
               (trace[n].op = "mtl_forward" /\ trace[n].grad) =>
                   /\ n < Len(trace)
                   /\ trace[n + 1].op = "mtl_loss"
                   /\ trace[n + 1].mb = trace[n].mb

(***************************************************************************)
(* Which loss engine the factory selects.                                  *)
(***************************************************************************)
EngineClasses ==
    {"DistillInfoNCELoss", "CoCaLoss", "ThreeTowersLoss", "SigLIPLoss",
     "MatryoshkaSigLIPLoss", "MatryoshkaInfoNCELoss", "InfoNCELoss"}

\* Setting or clearing the flag does not change what the factory returns.
NoEffect(flag, a) ==
    _create_contrastive_loss([a EXCEPT ![flag] = TRUE])
        = _create_contrastive_loss([a EXCEPT ![flag] = FALSE])

\* A rule ahead of the siglip rule applies.
BeforeSigLip(a) == a.distill \/ "coca" \in a.model \/ "3towers" \in a.model

\* The factory returned one engine or failed, the rules distill, coca and
\* 3towers taken in this order.
OneEngineOrFailure ==
    /\ (built.error = "none") # (built.class = "none")
    /\ built.class \in EngineClasses \cup {"none"}
    /\ fargs.distill => built.class = "DistillInfoNCELoss"
    /\ (~fargs.distill /\ "coca" \in fargs.model) => built.class = "CoCaLoss"
    /\ (~fargs.distill /\ fargs.model = {"3towers"}) => built.class = "ThreeTowersLoss"
    /\ (~BeforeSigLip(fargs) /\ ~fargs.siglip) =>
           built.class = IF fargs.matryoshka THEN "MatryoshkaInfoNCELoss"
                         ELSE "InfoNCELoss"

\* C37 as stated: the rules are taken in the order distill, coca, 3towers,
\* siglip, matryoshka, plain softmax; the siglip flag has no effect when a
\* rule ahead of it applies, and the matryoshka flag has none when a rule
\* ahead of it, the siglip rule included, applies.
SelectionByPrecedence ==
    (Constructed /\ built.by = "factory") =>
        /\ OneEngineOrFailure
        /\ BeforeSigLip(fargs) => NoEffect("siglip", fargs)
        /\ (BeforeSigLip(fargs) \/ fargs.siglip) => NoEffect("matryoshka", fargs)
        /\ (~BeforeSigLip(fargs) /\ fargs.siglip) =>
               built.class \in {"SigLIPLoss", "none"}

\* C37 amended: the rules distill, coca and 3towers are taken in this order
\* and under them neither siglip nor matryoshka has an effect; otherwise
\* siglip selects the sigmoid loss, in its matryoshka variant when the
\* matryoshka flag is set too, or fails with Horovod; otherwise matryoshka
\* selects the matryoshka softmax loss, and with no flag set the plain
\* softmax loss is returned.
SelectionWithMatryoshkaVariant ==
    (Constructed /\ built.by = "factory") =>
        /\ OneEngineOrFailure
        /\ BeforeSigLip(fargs) =>
               NoEffect("siglip", fargs) /\ NoEffect("matryoshka", fargs)
        /\ (~BeforeSigLip(fargs) /\ fargs.siglip) =>
               IF fargs.horovod THEN built.error = "AssertionError"
               ELSE built.class = IF fargs.matryoshka THEN "MatryoshkaSigLIPLoss"
                                  ELSE "SigLIPLoss"

\* C37 witness: siglip and matryoshka set, no earlier rule applies, and the
\* factory returned the matryoshka variant of the sigmoid loss.
MatryoshkaSigmoidSelected ==
    /\ fargs.siglip /\ fargs.matryoshka /\ ~fargs.horovod /\ ~BeforeSigLip(fargs)
    /\ built.by = "factory" /\ built.class = "MatryoshkaSigLIPLoss"

(***************************************************************************)
(* Optimizer steps per epoch.                                              *)
(***************************************************************************)
\* C36: with accum_freq = K > 1, after M microbatches the optimizer has
\* stepped floor(M / K) times less the number of dropped windows; the
\* commit loop and the optimizer step are reached only by the K-th
\* microbatch of a window, and in a window still short of K microbatches
\* there was no backward call and no optimizer step.
StepsPerEpoch ==
    args.accum_freq > 1 =>
        LET K == args.accum_freq
            M == loop.i
        IN  /\ loop.pc = "batch" =>
                  /\ loop.steps = (M \div K) - loop.dropped
                  /\ M % K # 0 =>
                        \A n \in 1 .. Len(trace) :
                            trace[n].op \notin {"backward", "step"}
            /\ loop.pc \in {"commit", "step"} => (M + 1) % K = 0

\* C36 witness: an epoch of five microbatches with accum_freq = 2 has taken
\* one step and dropped one window, and its last microbatch is left over.
TrailingPartialWindow ==
    /\ args.accum_freq = 2 /\ loop.pc = "batch" /\ loop.i = 5
    /\ loop.steps = 1 /\ loop.dropped = 1
    /\ Len(trace) > 0

(***************************************************************************)
(* The row layout of left_features and right_features over one             *)
(* accumulation window (training/train.py).  A microbatch holds            *)
(* batch_size image-text pairs, one batch of text pairs (its two halves    *)
(* stacked) and one batch of image pairs (left, then right); a feature row *)
(* is named by its modality, its microbatch and its index in the model     *)
(* output.                                                                 *)
(***************************************************************************)
\* Largest accum_freq of the layout runs, largest number of text pairs and
\* of image pairs in a microbatch.
MaxWindow == 2
MaxPair == 1

SubBatch == [batch : 1 .. MaxBatch, texts : 0 .. MaxPair, images : 0 .. MaxPair]
NoSubBatch == [batch |-> 0, texts |-> 0, images |-> 0]

FeatureRow(mod, mb, idx) == [mod |-> mod, mb |-> mb, idx |-> idx]

\* model(allimages, alltexts): one row per input row, with
\* allimages = cat([images, images_left, images_right]) and
\* alltexts = cat([texts, text pair batch]).
ImageFeatures(mb, sz) ==
    [n \in 1 .. (sz.batch + 2 * sz.images) |-> FeatureRow("image", mb, n - 1)]
TextFeatures(mb, sz) ==
    [n \in 1 .. (sz.batch + 2 * sz.texts) |-> FeatureRow("text", mb, n - 1)]

\* t[a:b] and t[a:]
Slice(t, a, b) == SubSeq(t, a + 1, Min(b, Len(t)))
SliceFrom(t, a) == SubSeq(t, a + 1, Len(t))

\* The regrouping of image_features and text_features into left_features
\* and right_features.
SplitFeatures(image_features, text_features, batch_size, texts_batch_size, images_batch_size) ==
    [left_features |->
         Slice(image_features, 0, batch_size)
         \o Slice(text_features, batch_size, batch_size + texts_batch_size)
         \o Slice(image_features, batch_size, batch_size + images_batch_size),
     right_features |->
         Slice(text_features, 0, batch_size)
         \o SliceFrom(text_features, batch_size + texts_batch_size)
         \o SliceFrom(image_features, batch_size + images_batch_size)]

\* One microbatch of the window: batch_size, texts_batch_size and
\* images_batch_size are set from it, its features are computed under
\* no_grad, regrouped and appended to accum_features.
LayoutCache(sz) ==
    /\ lay # <<>> /\ lay.pc = "cache"
    /\ LET i == lay.i
           modelout == SplitFeatures(ImageFeatures(i, sz), TextFeatures(i, sz),
                                     sz.batch, sz.texts, sz.images)
       IN  lay' = [lay EXCEPT !.sizes = Append(@, sz),
                              !.cur = sz,
                              !.cached = Append(@, modelout),
                              !.i = i + 1,
                              !.pc = IF Continue(i, lay.K) THEN "cache" ELSE "commit"]
    /\ UNCHANGED <<world_size, ringVars, gatherVars, labelVars, matVars, accumVars,
                   towerVars, factoryVars, unevenVars, skewVars>>

\* One iteration of `for k in range(args.accum_freq)`: microbatch k is
\* recomputed from accum_images[k] and accum_texts[k] and regrouped with
\* the batch_size, texts_batch_size and images_batch_size of the loop body,
\* which are those of the microbatch that closed the window.
LayoutCommit ==
    /\ lay # <<>> /\ lay.pc = "commit"
    /\ LET k == lay.k
           own == lay.sizes[k + 1]
           modelout == SplitFeatures(ImageFeatures(k, own), TextFeatures(k, own),
                                     lay.cur.batch, lay.cur.texts, lay.cur.images)
       IN  lay' = [lay EXCEPT !.live = Append(@, modelout),
                              !.k = k + 1,
                              !.pc = IF LoopDone(k + 1, lay.K) THEN "done" ELSE "commit"]
    /\ UNCHANGED <<world_size, ringVars, gatherVars, labelVars, matVars, accumVars,
                   towerVars, factoryVars, unevenVars, skewVars>>

LayoutInit ==
    /\ world_size = 1
    /\ \E K \in 2 .. MaxWindow :
           lay = [pc |-> "cache", K |-> K, i |-> 0, k |-> 0, cur |-> NoSubBatch,
                  sizes |-> <<>>, cached |-> <<>>, live |-> <<>>]
    /\ RingIdle
    /\ GatherIdle
    /\ LabelIdle
    /\ MatIdle
    /\ AccumIdle
    /\ TowerIdle
    /\ FactoryIdle
    /\ UnevenIdle
    /\ SkewIdle

LayoutNext ==
    \/ \E sz \in SubBatch : LayoutCache(sz)
    \/ LayoutCommit

SpecLayout == LayoutInit /\ [][LayoutNext]_vars

\* C34: in the commit loop the recomputed features of microbatch k are
\* regrouped with microbatch k's own sub-batch sizes: the live slot k has
\* the rows of the cached slot k in the same order, also when the sizes
\* differ between the microbatches of the window.
CommitLayoutMatchesCache ==
    \A k \in 1 .. Len(lay.live) : lay.live[k] = lay.cached[k]

\* When all microbatches of the window have the same sub-batch sizes the
\* live slot does have the layout of the cached slot.
EqualSizesSameLayout ==
    (\A a, b \in 1 .. Len(lay.sizes) : lay.sizes[a] = lay.sizes[b])
        => \A k \in 1 .. Len(lay.live) : lay.live[k] = lay.cached[k]

(***************************************************************************)
(* The forward pass of the sigmoid loss when one worker does not run the   *)
(* rounds its peers run: it leaves out its first exchange, or its bidir    *)
(* setting is the other way round.  No call of the exchange has a timeout, *)
(* and nothing in forward looks at what the peers did.                     *)
(***************************************************************************)
\* Largest world size of these runs.
MaxSkewW == 4

\* The forward pass of the worker that leaves out its first exchange.
SkipFirst(w, rounds) ==
    IF rounds = 1 THEN [w EXCEPT !.pc = "bwd"] ELSE [w EXCEPT !.rnd = 2]

SkewInit ==
    /\ world_size \in 2 .. MaxSkewW
    /\ entry = "forward"
    /\ bidir \in BOOLEAN
    /\ eager \in BOOLEAN
    /\ odd \in [rank : Workers, how : {"skip", "bidir"}]
    /\ odd.how = "bidir" =>
           RoundKinds(world_size, TRUE, entry) # RoundKinds(world_size, FALSE, entry)
    /\ wk = [r \in Ranks |->
                IF odd.how = "skip" /\ odd.rank = r
                THEN SkipFirst(InitWorker(r, world_size, entry), NumRounds)
                ELSE InitWorker(r, world_size, entry)]
    /\ chan = [s \in Ranks |-> [d \in Ranks |-> <<>>]]
    /\ nposted = [d \in Ranks |-> [s \in Ranks |-> 0]]
    /\ GatherIdle
    /\ LabelIdle
    /\ MatIdle
    /\ AccumIdle
    /\ TowerIdle
    /\ FactoryIdle
    /\ UnevenIdle
    /\ LayoutIdle

\* The worker processes keep running: a step that stays possible is taken.
SpecSkew == SkewInit /\ [][ForwardNext]_vars /\ WF_vars(ForwardNext)

Peers == Workers \ {odd.rank}

\* C32: when one worker skips an exchange round, or runs another round
\* sequence than its peers because its bidir setting differs, the peers
\* never all return from forward, and at least one peer ends up blocked in
\* the wait of a round for ever: nothing times out, detects the mismatch
\* or retries.
StallOnSkippedRound ==
    /\ [](\E r \in Peers : ~Returned(r))
    /\ \E r \in Ranks : <>[](r \in Peers /\ Blocked(r))

\* C32 witness: on four workers one of which has the other bidir setting
\* every worker has returned or is blocked, a peer among the blocked.
StalledOnMismatch ==
    /\ odd.how = "bidir" /\ world_size = 4
    /\ \A q \in Workers : Returned(q) \/ Blocked(q)
    /\ \E r \in Peers : Blocked(r)

\* The same with a worker that left out its first exchange.
StalledOnSkip ==
    /\ odd.how = "skip" /\ world_size = 3
    /\ \A q \in Workers : Returned(q) \/ Blocked(q)
    /\ \E r \in Peers : Blocked(r)

====
